---- MODULE Spec2Model ----
(***************************************************************************)
(* A model of the rustastic-smtp receiver: the framed line stream          *)
(* (src/common/stream.rs), the transaction (src/common/transaction.rs),    *)
(* the command dispatcher and session loop (src/server/mod.rs), the        *)
(* command handlers (src/server/handler.rs) and the mailbox parser         *)
(* (src/common/mailbox.rs, src/common/utils.rs).                           *)
(*                                                                         *)
(* Byte strings (&str, &[u8], Vec<u8>) are TLA+ strings; a byte is a       *)
(* string of length one.  The modelled alphabet is CR, LF and printable    *)
(* ASCII except the backquote, which a TLA+ string cannot hold.            *)
(***************************************************************************)
EXTENDS Integers, Sequences, FiniteSets, TLC

(***************************************************************************)
(* Bounds and configuration of the modelled server.                        *)
(***************************************************************************)
\* SmtpServerConfig.max_line_size of the modelled server
MaxLineSize == 17
\* SmtpServerConfig.max_message_size of the modelled server
MaxMessageSize == 4
\* SmtpServerConfig.max_recipients of the modelled server
MaxRecipients == 2

(***************************************************************************)
(* Bytes and string slices.                                                *)
(***************************************************************************)
CR == "\r"
LF == "\n"
CRLF == "\r\n"

\* printable ASCII 32..95 and 97..126, in code order
Ascii32to95 == " !\"#$%&'()*+,-./0123456789:;<=>?@ABCDEFGHIJKLMNOPQRSTUVWXYZ[\\]^_"
Ascii97to126 == "abcdefghijklmnopqrstuvwxyz{|}~"
UpperLetters == "ABCDEFGHIJKLMNOPQRSTUVWXYZ"
LowerLetters == "abcdefghijklmnopqrstuvwxyz"

\* `c as int`
Ord(c) ==
    IF c = CR THEN 13
    ELSE IF c = LF THEN 10
    ELSE IF \E i \in 1..Len(Ascii32to95) : SubSeq(Ascii32to95, i, i) = c
         THEN 31 + (CHOOSE i \in 1..Len(Ascii32to95) : SubSeq(Ascii32to95, i, i) = c)
    ELSE IF \E i \in 1..Len(Ascii97to126) : SubSeq(Ascii97to126, i, i) = c
         THEN 96 + (CHOOSE i \in 1..Len(Ascii97to126) : SubSeq(Ascii97to126, i, i) = c)
    ELSE 0

\* s.char_at(i), i counted from 0
char_at(s, i) == SubSeq(s, i + 1, i + 1)
\* s.slice_from(i)
slice_from(s, i) == SubSeq(s, i + 1, Len(s))
\* s.slice_to(n)
slice_to(s, n) == SubSeq(s, 1, n)
\* s.slice(a, b)
slice(s, a, b) == SubSeq(s, a + 1, b)

Min(a, b) == IF a < b THEN a ELSE b

\* one char of into_ascii_upper / into_ascii_lower
to_ascii_upper(c) ==
    IF \E i \in 1..26 : SubSeq(LowerLetters, i, i) = c
    THEN LET i == CHOOSE k \in 1..26 : SubSeq(LowerLetters, k, k) = c
         IN  SubSeq(UpperLetters, i, i)
    ELSE c
to_ascii_lower(c) ==
    IF \E i \in 1..26 : SubSeq(UpperLetters, i, i) = c
    THEN LET i == CHOOSE k \in 1..26 : SubSeq(UpperLetters, k, k) = c
         IN  SubSeq(LowerLetters, i, i)
    ELSE c

RECURSIVE into_ascii_upper(_)
into_ascii_upper(s) ==
    IF Len(s) = 0 THEN ""
    ELSE to_ascii_upper(char_at(s, 0)) \o into_ascii_upper(slice_from(s, 1))

RECURSIVE into_ascii_lower(_)
into_ascii_lower(s) ==
    IF Len(s) = 0 THEN ""
    ELSE to_ascii_lower(char_at(s, 0)) \o into_ascii_lower(slice_from(s, 1))

\* String::from_char(n, c)
RECURSIVE from_char(_, _)
from_char(n, c) == IF n <= 0 THEN "" ELSE c \o from_char(n - 1, c)

\* num::next_power_of_two, as Vec::reserve rounds the capacity it is asked for
RECURSIVE next_power_of_two_from(_, _)
next_power_of_two_from(p, n) == IF p >= n THEN p ELSE next_power_of_two_from(2 * p, n)
next_power_of_two(n) == next_power_of_two_from(1, n)

(***************************************************************************)
(* src/common/utils.rs: the RFC 5321 grammar helpers.                      *)
(***************************************************************************)
\* the ranges of is_alnum, on the char's code
alnum_code(o) == (65 <= o /\ o <= 90) \/ (97 <= o /\ o <= 122) \/ (48 <= o /\ o <= 57)

is_alnum(c) == alnum_code(Ord(c))

is_atext(c) ==
    \/ c \in {"!", "#", "$", "%", "&", "'", "*", "+", "-", "/", "=", "?",
              "^", "_", "{", "|", "}", "~"}
    \/ is_alnum(c)

\* the ranges of is_qtext_smtp, on the char's code
qtext_code(o) == (32 <= o /\ o <= 33) \/ (35 <= o /\ o <= 91) \/ (93 <= o /\ o <= 126)

is_qtext_smtp(c) == qtext_code(Ord(c))

is_quoted_pair_smtp(c1, c2) ==
    Ord(c1) = 92 /\ Ord(c2) >= 32 /\ Ord(c2) <= 126

\* the inner `while i < s.len() && s.char_at(i) == '-'` of get_subdomain_len
RECURSIVE skip_dashes(_, _)
skip_dashes(s, i) ==
    IF i < Len(s) /\ char_at(s, i) = "-" THEN skip_dashes(s, i + 1) ELSE i

\* the outer `while i < s.len()` of get_subdomain_len: (i, confirmed_min)
RECURSIVE subdomain_loop(_, _, _)
subdomain_loop(s, i, confirmed_min) ==
    IF i < Len(s)
    THEN IF is_alnum(char_at(s, i)) THEN subdomain_loop(s, i + 1, i + 1)
         ELSE IF char_at(s, i) = "-"
              THEN subdomain_loop(s, skip_dashes(s, i), confirmed_min)
              ELSE confirmed_min
    ELSE confirmed_min

get_subdomain_len(s) ==
    IF Len(s) = 0 THEN 0
    ELSE IF is_alnum(char_at(s, 0)) THEN subdomain_loop(s, 1, 1)
    ELSE 0

\* the `while` of get_domain_len; domain_next is its body once the next
\* subdomain's length len is known
RECURSIVE domain_loop(_, _)
RECURSIVE domain_next(_, _, _)
domain_loop(s, confirmed_min) ==
    IF confirmed_min < Len(s) /\ char_at(s, confirmed_min) = "."
    THEN domain_next(s, confirmed_min, get_subdomain_len(slice_from(s, confirmed_min + 1)))
    ELSE confirmed_min
domain_next(s, confirmed_min, len) ==
    IF len > 0 THEN domain_loop(s, confirmed_min + 1 + len) ELSE confirmed_min

\* get_domain_len once the first subdomain's length is known
domain_from(s, confirmed_min) ==
    IF confirmed_min > 0 THEN domain_loop(s, confirmed_min) ELSE confirmed_min

get_domain_len(s) == domain_from(s, get_subdomain_len(s))

RECURSIVE atom_loop(_, _)
atom_loop(s, len) ==
    IF len < Len(s) /\ is_atext(char_at(s, len)) THEN atom_loop(s, len + 1) ELSE len

get_atom_len(s) == atom_loop(s, 0)

\* the `while` of get_dot_string_len; dot_string_next is its body once the
\* next atom's length len is known
RECURSIVE dot_string_loop(_, _)
RECURSIVE dot_string_next(_, _, _)
dot_string_loop(s, confirmed_min) ==
    IF confirmed_min < Len(s) /\ char_at(s, confirmed_min) = "."
    THEN dot_string_next(s, confirmed_min, get_atom_len(slice_from(s, confirmed_min + 1)))
    ELSE confirmed_min
dot_string_next(s, confirmed_min, len) ==
    IF len > 0 THEN dot_string_loop(s, confirmed_min + 1 + len) ELSE confirmed_min

\* get_dot_string_len once the first atom's length is known
dot_string_from(s, confirmed_min) ==
    IF confirmed_min > 0 THEN dot_string_loop(s, confirmed_min) ELSE confirmed_min

get_dot_string_len(s) == dot_string_from(s, get_atom_len(s))

RECURSIVE quoted_string_loop(_, _)
quoted_string_loop(s, len) ==
    IF len < Len(s) /\ is_qtext_smtp(char_at(s, len))
    THEN quoted_string_loop(s, len + 1)
    ELSE IF len + 1 < Len(s) /\ is_quoted_pair_smtp(char_at(s, len), char_at(s, len + 1))
    THEN quoted_string_loop(s, len + 2)
    ELSE len

\* the end of get_quoted_string_len: the closing quote at len
quoted_string_end(s, len) ==
    IF len < Len(s) /\ char_at(s, len) = "\"" THEN len + 1 ELSE 0

get_quoted_string_len(s) ==
    IF Len(s) < 2 \/ char_at(s, 0) # "\"" THEN 0
    ELSE quoted_string_end(s, quoted_string_loop(s, 1))

\* the end of get_at_domain_len: the length with the '@' counted in
at_domain_end(len) == IF len > 0 THEN len + 1 ELSE 0

get_at_domain_len(s) ==
    IF Len(s) < 1 \/ char_at(s, 0) # "@" THEN 0
    ELSE at_domain_end(get_domain_len(slice_from(s, 1)))

\* the `loop` of get_source_route_len; source_route_next is its body once
\* the next at-domain's length curr_len is known
RECURSIVE source_route_loop(_, _)
RECURSIVE source_route_next(_, _, _)
source_route_loop(s, len) ==
    source_route_next(s, len, get_at_domain_len(slice_from(s, len)))
source_route_next(s, len, curr_len) ==
    IF curr_len > 0
    THEN IF len + curr_len < Len(s) /\ char_at(s, len + curr_len) = ","
         THEN source_route_loop(s, len + curr_len + 1)
         ELSE len + curr_len
    ELSE len

\* the end of get_source_route_len: the ':' at len
source_route_end(s, len) ==
    IF len < Len(s) /\ char_at(s, len) = ":" THEN len + 1 ELSE 0

get_source_route_len(s) == source_route_end(s, source_route_loop(s, 0))

RECURSIVE until_bracket(_, _)
until_bracket(ip, i) ==
    IF i < Len(ip) /\ char_at(ip, i) # "]" THEN until_bracket(ip, i + 1) ELSE i

\* the end of get_possible_ipv6_len / get_possible_ipv4_len: the ']' at i
bracket_end(ip, i) == IF i < Len(ip) /\ char_at(ip, i) = "]" THEN i + 1 ELSE 0

get_possible_ipv6_len(ip) ==
    IF Len(ip) < 7 \/ slice_to(ip, 6) # "[Ipv6:" THEN 0
    ELSE bracket_end(ip, until_bracket(ip, 6))

get_possible_ipv4_len(ip) ==
    IF Len(ip) < 3 \/ char_at(ip, 0) # "[" \/ Ord(char_at(ip, 1)) > 57
       \/ Ord(char_at(ip, 1)) < 48
    THEN 0
    ELSE bracket_end(ip, until_bracket(ip, 1))

RECURSIVE unescape_loop(_, _)
unescape_loop(s, i) ==
    IF i < Len(s) - 1
    THEN IF is_atext(char_at(s, i)) \/ is_qtext_smtp(char_at(s, i))
         THEN char_at(s, i) \o unescape_loop(s, i + 1)
         ELSE char_at(s, i + 1) \o unescape_loop(s, i + 2)
    ELSE ""

unescape_quoted_string(s) == unescape_loop(s, 1)

RECURSIVE simplify_loop(_, _)
simplify_loop(s, i) ==
    IF i < Len(s) - 1
    THEN IF is_qtext_smtp(char_at(s, i))
         THEN char_at(s, i) \o simplify_loop(s, i + 1)
         ELSE IF char_at(s, i + 1) = "\"" \/ char_at(s, i + 1) = "\\"
              THEN char_at(s, i) \o char_at(s, i + 1) \o simplify_loop(s, i + 2)
              ELSE char_at(s, i + 1) \o simplify_loop(s, i + 2)
    ELSE ""

\* the end of simplify_quoted_string, on the unescaped string
simplify_end(s, unescaped) ==
    IF get_dot_string_len(unescaped) = Len(unescaped) THEN unescaped
    ELSE "\"" \o simplify_loop(s, 1) \o "\""

simplify_quoted_string(s) == simplify_end(s, unescape_quoted_string(s))

(***************************************************************************)
(* src/common/mailbox.rs: Mailbox::parse.                                  *)
(* A Mailbox is [local_part |-> [smtp_string, human_string],               *)
(* foreign_part |-> [kind, value]]; an Option or a Result's payload is a   *)
(* sequence of length 0 or 1.                                              *)
(***************************************************************************)
MAX_MAILBOX_LOCAL_PART_LEN == 64
MAX_MAILBOX_LEN == 254
MAX_DOMAIN_LEN == 255

\* a from_dot_string that lower-cases the string for use in SMTP
from_dot_string_lowered(dot_string) ==
    [human_string |-> dot_string, smtp_string |-> into_ascii_lower(dot_string)]

from_dot_string(dot_string) ==
    [human_string |-> dot_string, smtp_string |-> dot_string]

from_quoted_string(quoted_string) ==
    [human_string |-> unescape_quoted_string(quoted_string),
     smtp_string |-> simplify_quoted_string(quoted_string)]

Domain(d) == [kind |-> "Domain", value |-> d]
IpAddr(ip) == [kind |-> "IpAddr", value |-> ip]

ParseErr(e) == [err |-> e, mailbox |-> <<>>]
ParseOk(m) == [err |-> "", mailbox |-> <<m>>]

\* the digits of a decimal number of at most 3 digits below 256, at the start of s
is_digit(c) == Ord(c) >= 48 /\ Ord(c) <= 57
RECURSIVE digits_len(_, _)
digits_len(s, i) ==
    IF i < Len(s) /\ i < 3 /\ is_digit(char_at(s, i)) THEN digits_len(s, i + 1) ELSE i
RECURSIVE decimal_value(_)
decimal_value(s) ==
    IF Len(s) = 0 THEN 0
    ELSE 10 * decimal_value(slice_to(s, Len(s) - 1)) + (Ord(char_at(s, Len(s) - 1)) - 48)

\* FromStr for an Ipv4Addr: exactly four decimal groups below 256 joined by dots
RECURSIVE ipv4_groups(_, _)
ipv4_groups(s, left) ==
    LET n == digits_len(s, 0)
    IN  IF n = 0 \/ decimal_value(slice_to(s, n)) > 255 THEN FALSE
        ELSE IF left = 1 THEN n = Len(s)
        ELSE n < Len(s) /\ char_at(s, n) = "." /\ ipv4_groups(slice_from(s, n + 1), left - 1)

\* FromStr for an Ipv6Addr, restricted to the forms "::" and "::h" .. "::hhhh"
is_hex_digit(c) ==
    is_digit(c) \/ (Ord(c) >= 97 /\ Ord(c) <= 102) \/ (Ord(c) >= 65 /\ Ord(c) <= 70)
ipv6_short(s) ==
    /\ Len(s) >= 2 /\ Len(s) <= 6
    /\ slice_to(s, 2) = "::"
    /\ \A i \in 2..(Len(s) - 1) : is_hex_digit(char_at(s, i))

\* FromStr::from_str::<IpAddr>: Some(ip) as <<ip>>, None as <<>>
ip_from_str(s) ==
    IF ipv4_groups(s, 4) \/ ipv6_short(s) THEN <<s>> ELSE <<>>

\* the foreign part found at offset, as (error or "", foreign part, offset
\* after it), from the three candidate lengths
foreign_part(s, offset, domain_len, ipv4_len, ipv6_len) ==
    IF domain_len > 0
    THEN IF domain_len > MAX_DOMAIN_LEN
         THEN <<"DomainTooLong", Domain(""), offset>>
         ELSE <<"", Domain(slice(s, offset, offset + domain_len)), offset + domain_len>>
    ELSE IF ipv4_len > 0
    THEN IF ip_from_str(slice(s, offset + 1, offset + ipv4_len - 1)) # <<>>
         THEN <<"", IpAddr(slice(s, offset + 1, offset + ipv4_len - 1)), offset + ipv4_len>>
         ELSE <<"ForeignPartUnrecognized", Domain(""), offset>>
    ELSE IF ipv6_len > 0
    THEN IF ip_from_str(slice(s, offset + 6, offset + ipv6_len - 1)) # <<>>
         THEN <<"", IpAddr(slice(s, offset + 6, offset + ipv6_len - 1)), offset + ipv6_len>>
         ELSE <<"ForeignPartUnrecognized", Domain(""), offset>>
    ELSE <<"ForeignPartUnrecognized", Domain(""), offset>>

\* an end of Mailbox::parse that refuses an address of MAX_MAILBOX_LEN octets
parse_end_ge(s, local_part, fp) ==
    IF fp[1] # "" THEN ParseErr(fp[1])
    ELSE IF fp[3] # Len(s) THEN ParseErr("ForeignPartUnrecognized")
    ELSE IF fp[3] >= MAX_MAILBOX_LEN THEN ParseErr("TooLong")
    ELSE IF into_ascii_lower(local_part.human_string) = "postmaster"
    THEN ParseOk([local_part |-> from_dot_string("postmaster"), foreign_part |-> fp[2]])
    ELSE ParseOk([local_part |-> local_part, foreign_part |-> fp[2]])

\* an end of Mailbox::parse that compares the local part with postmaster
\* as it is written
parse_end_exact(s, local_part, fp) ==
    IF fp[1] # "" THEN ParseErr(fp[1])
    ELSE IF fp[3] # Len(s) THEN ParseErr("ForeignPartUnrecognized")
    ELSE IF fp[3] > MAX_MAILBOX_LEN THEN ParseErr("TooLong")
    ELSE IF local_part.human_string = "postmaster"
    THEN ParseOk([local_part |-> from_dot_string("postmaster"), foreign_part |-> fp[2]])
    ELSE ParseOk([local_part |-> local_part, foreign_part |-> fp[2]])

\* the end of Mailbox::parse, once the foreign part fp is known
parse_end(s, local_part, fp) ==
    IF fp[1] # "" THEN ParseErr(fp[1])
    ELSE IF fp[3] # Len(s) THEN ParseErr("ForeignPartUnrecognized")
    ELSE IF fp[3] > MAX_MAILBOX_LEN THEN ParseErr("TooLong")
    ELSE IF into_ascii_lower(local_part.human_string) = "postmaster"
    THEN ParseOk([local_part |-> from_dot_string("postmaster"), foreign_part |-> fp[2]])
    ELSE ParseOk([local_part |-> local_part, foreign_part |-> fp[2]])

\* Mailbox::parse from the foreign part on
parse_foreign(s, local_part, offset) ==
    parse_end(s, local_part,
              foreign_part(s, offset,
                           get_domain_len(slice_from(s, offset)),
                           get_possible_ipv4_len(slice_from(s, offset)),
                           get_possible_ipv6_len(slice_from(s, offset))))

\* a Mailbox::parse that reports any missing '@' as AtNotFound
parse_at_not_found(s, local_part, offset) ==
    IF offset >= Len(s) \/ char_at(s, offset) # "@" THEN ParseErr("AtNotFound")
    ELSE parse_foreign(s, local_part, offset + 1)

\* Mailbox::parse after the local part: the '@' and what follows
parse_at(s, local_part, offset) ==
    IF offset >= Len(s) THEN ParseErr("AtNotFound")
    ELSE IF char_at(s, offset) # "@" THEN ParseErr("LocalPartUnrecognized")
    ELSE parse_foreign(s, local_part, offset + 1)

\* the local part at offset, as (error or "", local part, offset after it),
\* from the two candidate lengths
local_part_at(s, offset, dot_string_len, quoted_string_len) ==
    IF dot_string_len > 0
    THEN IF dot_string_len > MAX_MAILBOX_LOCAL_PART_LEN
         THEN <<"LocalPartTooLong", from_dot_string(""), offset>>
         ELSE <<"", from_dot_string(slice(s, offset, offset + dot_string_len)),
                offset + dot_string_len>>
    ELSE IF quoted_string_len = 0
    THEN <<"LocalPartUnrecognized", from_dot_string(""), offset>>
    ELSE IF quoted_string_len > MAX_MAILBOX_LOCAL_PART_LEN
    THEN <<"LocalPartTooLong", from_dot_string(""), offset>>
    ELSE <<"", from_quoted_string(slice(s, offset, offset + quoted_string_len)),
           offset + quoted_string_len>>

\* Mailbox::parse once the local part lp is known
parse_local(s, lp) ==
    IF lp[1] # "" THEN ParseErr(lp[1]) ELSE parse_at(s, lp[2], lp[3])

\* Mailbox::parse past a source route of length offset
parse_from(s, offset) ==
    parse_local(s, local_part_at(s, offset,
                                 get_dot_string_len(slice_from(s, offset)),
                                 get_quoted_string_len(slice_from(s, offset))))

\* Mailbox::parse
MailboxParse(s) == parse_from(s, get_source_route_len(s))

(***************************************************************************)
(* src/common/transaction.rs: SmtpTransaction.                             *)
(***************************************************************************)
SmtpTransactionState == {"Init", "Helo", "Mail", "Rcpt", "Data"}

\* SmtpTransaction::new
SmtpTransaction_new ==
    [domain |-> "", to |-> <<>>, from |-> <<>>, data |-> "", state |-> "Init"]

\* a reset that starts the session over, identification included
reset_to_init(t) ==
    [t EXCEPT !.to = <<>>, !.from = <<>>, !.data = "", !.domain = "",
              !.state = "Init"]

\* a reset that forgets to clear the recipients
reset_keeps_to(t) ==
    [t EXCEPT !.from = <<>>, !.data = "",
              !.state = IF t.state # "Init" THEN "Helo" ELSE t.state]

\* SmtpTransaction::reset
reset(t) ==
    [t EXCEPT !.to = <<>>, !.from = <<>>, !.data = "",
              !.state = IF t.state # "Init" THEN "Helo" ELSE t.state]

(***************************************************************************)
(* src/common/stream.rs: SmtpStream.                                       *)
(***************************************************************************)
LINE_TOO_LONG == "line too long"
DATA_TOO_LONG == "message too long"

IoOk == <<>>
IoError(kind, desc) == <<[kind |-> kind, desc |-> desc]>>

\* the loop of position_crlf: state is "Cr" or "Lf"; None is -1
RECURSIVE position_crlf_loop(_, _, _)
position_crlf_loop(b, index, st) ==
    IF index >= Len(b) THEN -1
    ELSE IF st = "Cr"
         THEN position_crlf_loop(b, index + 1, IF char_at(b, index) = CR THEN "Lf" ELSE "Cr")
         ELSE IF char_at(b, index) = LF THEN index - 1
              ELSE position_crlf_loop(b, index + 1, "Lf")

position_crlf(b) == position_crlf_loop(b, 0, "Cr")

\* Vec::reserve(capacity) on a vector of capacity c: no action when c is
\* enough, else the requested capacity rounded to the next power of two
reserve(c, capacity) == IF capacity > c THEN next_power_of_two(capacity) ELSE c

\* find_line on buffer b of capacity c: the line, and the buffer after it
\* (slice_from(p + 2).into_vec() has capacity equal to its length)
find_line(b, c) ==
    LET p == position_crlf(b)
    IN  IF p >= 0
        THEN [err |-> IoOk, line |-> slice_to(b, p), buf |-> slice_from(b, p + 2),
              cap |-> reserve(Len(slice_from(b, p + 2)), MaxLineSize)]
        ELSE [err |-> IoError("InvalidInput", LINE_TOO_LONG), line |-> "",
              buf |-> b, cap |-> c]

\* what the underlying stream's read does for fill_buf: "block", "eof",
\* "error" (any other IoError) or "data"
stream_read(w, p, room) ==
    IF w # "" /\ room > 0 THEN "data"
    ELSE IF room = 0 THEN "empty"
    ELSE IF p = "closed" THEN "eof"
    ELSE IF p = "reset" THEN "error"
    ELSE "block"

\* read_line on (b, c) when fill_buf gets n bytes of the pending input w of
\* a peer in state p: the result, the buffer and the input left
read_line(b, c, w, p, n) ==
    LET first == find_line(b, c)
        got == stream_read(w, p, c - Len(b))
        filled == b \o slice_to(w, n)
        second == find_line(filled, c)
    IN  IF first.err = IoOk THEN first @@ [wire |-> w]
        ELSE IF got = "data" THEN second @@ [wire |-> slice_from(w, n)]
        ELSE IF got = "error"
             THEN [err |-> IoError("ConnectionReset", "connection reset"), line |-> "",
                   buf |-> b, cap |-> c, wire |-> w]
        ELSE find_line(b, c) @@ [wire |-> w]

\* whether read_line returns at all (the underlying read blocks otherwise)
read_line_returns(b, c, w, p) ==
    find_line(b, c).err = IoOk \/ stream_read(w, p, c - Len(b)) # "block"

\* a read_data whose size test is `>=`
read_data_step_ge(d, rl) ==
    IF rl.err # IoOk THEN [done |-> TRUE, err |-> rl.err, data |-> d]
    ELSE IF Len(d) # 0 /\ rl.line = "." THEN [done |-> TRUE, err |-> IoOk, data |-> d]
    ELSE IF Len(d \o rl.line) >= MaxMessageSize
         THEN [done |-> TRUE, err |-> IoError("InvalidInput", DATA_TOO_LONG),
               data |-> d \o rl.line]
    ELSE [done |-> FALSE, err |-> IoOk, data |-> d \o rl.line]

\* one turn of read_data's loop on accumulated data d and read_line's
\* result rl: `done` says whether read_data returns, `err` with what
read_data_step(d, rl) ==
    IF rl.err # IoOk THEN [done |-> TRUE, err |-> rl.err, data |-> d]
    ELSE IF Len(d) # 0 /\ rl.line = "." THEN [done |-> TRUE, err |-> IoOk, data |-> d]
    ELSE IF Len(d \o rl.line) > MaxMessageSize
         THEN [done |-> TRUE, err |-> IoError("InvalidInput", DATA_TOO_LONG),
               data |-> d \o rl.line]
    ELSE [done |-> FALSE, err |-> IoOk, data |-> d \o rl.line]

(***************************************************************************)
(* src/server/handler.rs: the command handlers.  A handler's effect is the *)
(* transaction it leaves, the lines it writes, what it returns ("Ok",      *)
(* "Err", or "Panic" when it aborts the task) and whether it goes on to    *)
(* read the message body.  `ok` is what the embedder's callback returns.   *)
(***************************************************************************)
ServerDomain == "mx"

Effect(t, written, ret, body) ==
    [transaction |-> t, written |-> written, ret |-> ret, body |-> body,
     calls |-> << >>]

\* the effect e of a handler that has called the embedder's method c
Calling(c, e) == [e EXCEPT !.calls = << c >>]

\* a handle_command_helo that records the domain before it asks the embedder
helo_records_first(t, arg, ok) ==
    IF Len(arg) = 0 THEN Effect(t, <<"501 Domain name not provided">>, "Ok", FALSE)
    ELSE IF get_domain_len(arg) # Len(arg)
    THEN Effect(t, <<"501 Domain name is invalid">>, "Ok", FALSE)
    ELSE IF ok
    THEN Effect([t EXCEPT !.domain = arg, !.state = "Helo"], <<"250 OK">>, "Ok", FALSE)
    ELSE Effect([t EXCEPT !.domain = arg], <<"550 Domain not taken">>, "Err", FALSE)

handle_command_helo(t, arg, ok) ==
    IF Len(arg) = 0 THEN Effect(t, <<"501 Domain name not provided">>, "Ok", FALSE)
    ELSE IF get_domain_len(arg) # Len(arg)
    THEN Effect(t, <<"501 Domain name is invalid">>, "Ok", FALSE)
    ELSE IF ok
    THEN Calling("handle_domain",
                 Effect([t EXCEPT !.domain = arg, !.state = "Helo"], <<"250 OK">>,
                        "Ok", FALSE))
    ELSE Calling("handle_domain", Effect(t, <<"550 Domain not taken">>, "Err", FALSE))

\* a handle_command_mail that returns the parse error to the session's loop
mail_error_propagates(t, mailbox_res, ok) ==
    IF mailbox_res.err # ""
    THEN Effect(t, <<"553 Email address invalid: " \o mailbox_res.err>>, "Err", FALSE)
    ELSE IF ok
    THEN Effect([t EXCEPT !.from = mailbox_res.mailbox, !.state = "Mail"],
                <<"250 OK">>, "Ok", FALSE)
    ELSE Effect(t, <<"550 Mailbox not taken">>, "Ok", FALSE)

\* handle_command_mail once Mailbox::parse has returned mailbox_res
mail_parsed(t, mailbox_res, ok) ==
    IF mailbox_res.err # ""
    THEN Effect(t, <<"553 Email address invalid: " \o mailbox_res.err>>, "Ok", FALSE)
    ELSE IF ok
    THEN Calling("handle_sender_address(Some)",
                 Effect([t EXCEPT !.from = mailbox_res.mailbox, !.state = "Mail"],
                        <<"250 OK">>, "Ok", FALSE))
    ELSE Calling("handle_sender_address(Some)",
                 Effect(t, <<"550 Mailbox not taken">>, "Ok", FALSE))

\* a handle_command_mail that gives <> to Mailbox::parse like any address
mail_null_parsed(t, arg, ok) ==
    IF Len(arg) < 2 \/ char_at(arg, 0) # "<" \/ char_at(arg, Len(arg) - 1) # ">"
    THEN Effect(t, <<"501 Email address invalid, must start with < and end with >">>,
                "Ok", FALSE)
    ELSE mail_parsed(t, MailboxParse(slice(arg, 1, Len(arg) - 1)), ok)

handle_command_mail(t, arg, ok) ==
    IF Len(arg) < 2 \/ char_at(arg, 0) # "<" \/ char_at(arg, Len(arg) - 1) # ">"
    THEN Effect(t, <<"501 Email address invalid, must start with < and end with >">>,
                "Ok", FALSE)
    ELSE IF arg = "<>"
    THEN IF ok
         THEN Calling("handle_sender_address(None)",
                      Effect([t EXCEPT !.from = <<>>, !.state = "Mail"], <<"250 OK">>,
                             "Ok", FALSE))
         ELSE Calling("handle_sender_address(None)",
                      Effect(t, <<"550 Mailbox not available">>, "Err", FALSE))
    ELSE mail_parsed(t, MailboxParse(slice(arg, 1, Len(arg) - 1)), ok)

\* a handle_command_rcpt that records the recipient and leaves the state
rcpt_keeps_state(t, mailbox_res, ok) ==
    IF mailbox_res.err # ""
    THEN Effect(t, <<"553 Email address invalid: " \o mailbox_res.err>>, "Ok", FALSE)
    ELSE IF ok
    THEN Calling("handle_receiver_address",
                 Effect([t EXCEPT !.to = Append(t.to, mailbox_res.mailbox[1])],
                        <<"250 OK">>, "Ok", FALSE))
    ELSE Calling("handle_receiver_address",
                 Effect(t, <<"550 Mailbox not available">>, "Ok", FALSE))

\* handle_command_rcpt once Mailbox::parse has returned mailbox_res
rcpt_parsed(t, mailbox_res, ok) ==
    IF mailbox_res.err # ""
    THEN Effect(t, <<"553 Email address invalid: " \o mailbox_res.err>>, "Ok", FALSE)
    ELSE IF ok
    THEN Calling("handle_receiver_address",
                 Effect([t EXCEPT !.to = Append(t.to, mailbox_res.mailbox[1]),
                                  !.state = "Rcpt"],
                        <<"250 OK">>, "Ok", FALSE))
    ELSE Calling("handle_receiver_address",
                 Effect(t, <<"550 Mailbox not available">>, "Ok", FALSE))

\* a handle_command_rcpt without the max_recipients test
rcpt_unlimited(t, arg, ok) ==
    IF Len(arg) = 0 THEN Effect(t, <<>>, "Panic", FALSE)
    ELSE IF char_at(arg, 0) # "<" \/ char_at(arg, Len(arg) - 1) # ">"
    THEN Effect(t, <<"501 Email address invalid, must start with < and end with >">>,
                "Ok", FALSE)
    ELSE rcpt_parsed(t, MailboxParse(slice(arg, 1, Len(arg) - 1)), ok)

\* line.char_at(0) on an empty line is out of bounds: the task aborts
handle_command_rcpt(t, arg, ok) ==
    IF Len(t.to) >= MaxRecipients
    THEN Effect(t, <<"452 Too many recipients">>, "Ok", FALSE)
    ELSE IF Len(arg) = 0 THEN Effect(t, <<>>, "Panic", FALSE)
    ELSE IF char_at(arg, 0) # "<" \/ char_at(arg, Len(arg) - 1) # ">"
    THEN Effect(t, <<"501 Email address invalid, must start with < and end with >">>,
                "Ok", FALSE)
    ELSE rcpt_parsed(t, MailboxParse(slice(arg, 1, Len(arg) - 1)), ok)

\* handle_command_data up to stream.read_data()
handle_command_data(t, arg, ok) ==
    IF Len(arg) # 0 THEN Effect(t, <<"501 No arguments allowed">>, "Ok", FALSE)
    ELSE Effect(t, <<"354 Start mail input; end with <CRLF>.<CRLF>">>, "Ok", TRUE)

\* a handle_command_data that stores the body and leaves out the reset
data_end_without_reset(t, rd) ==
    IF rd.err = IoOk
    THEN Effect([t EXCEPT !.data = rd.data, !.state = "Data"], <<"250 OK">>, "Ok", FALSE)
    ELSE IF rd.err[1].kind = "InvalidInput"
    THEN Effect(t, <<"552 Too much mail data, max " \o ToString(MaxMessageSize) \o " bytes">>,
                "Ok", FALSE)
    ELSE Effect(t, <<>>, "Panic", FALSE)

\* a handle_command_data whose reset leaves the state Data
data_end_stays_data(t, rd) ==
    IF rd.err = IoOk
    THEN Effect([reset(t) EXCEPT !.state = "Data"], <<"250 OK">>, "Ok", FALSE)
    ELSE IF rd.err[1].kind = "InvalidInput"
    THEN Effect(t, <<"552 Too much mail data, max " \o ToString(MaxMessageSize) \o " bytes">>,
                "Ok", FALSE)
    ELSE Effect(t, <<>>, "Panic", FALSE)

\* handle_command_data from the return of stream.read_data() with rd
handle_command_data_end(t, rd) ==
    IF rd.err = IoOk
    THEN Effect(reset([t EXCEPT !.data = rd.data, !.state = "Data"]), <<"250 OK">>,
                "Ok", FALSE)
    ELSE IF rd.err[1].kind = "InvalidInput"
    THEN Effect(t, <<"552 Too much mail data, max " \o ToString(MaxMessageSize) \o " bytes">>,
                "Ok", FALSE)
    ELSE Effect(t, <<>>, "Panic", FALSE)

handle_command_rset(t, arg, ok) ==
    IF Len(arg) # 0 THEN Effect(t, <<"501 No arguments allowed">>, "Ok", FALSE)
    ELSE Effect(reset(t), <<"250 OK">>, "Ok", FALSE)

\* a handle_command_vrfy that moves the transaction on
vrfy_sets_mail(t, arg, ok) ==
    Effect([t EXCEPT !.state = "Mail"], <<"252 Cannot VRFY user">>, "Ok", FALSE)

handle_command_vrfy(t, arg, ok) == Effect(t, <<"252 Cannot VRFY user">>, "Ok", FALSE)

handle_command_expn(t, arg, ok) ==
    Effect(t, <<"252 Cannot EXPN mailing list">>, "Ok", FALSE)

handle_command_help(t, arg, ok) ==
    IF Len(arg) = 0 \/ char_at(arg, 0) = " "
    THEN Effect(t, <<"502 Command not implemented">>, "Ok", FALSE)
    ELSE Effect(t, <<"500 Command unrecognized">>, "Ok", FALSE)

\* a handle_command_noop that resets the transaction
noop_resets(t, arg, ok) == Effect(reset(t), <<"250 OK">>, "Ok", FALSE)

handle_command_noop(t, arg, ok) ==
    IF Len(arg) = 0 \/ char_at(arg, 0) = " "
    THEN Effect(t, <<"250 OK">>, "Ok", FALSE)
    ELSE Effect(t, <<"500 Command unrecognized">>, "Ok", FALSE)

\* a handle_command_quit that lets the session go on
quit_returns_ok(t, arg, ok) == Effect(t, <<"221 " \o ServerDomain>>, "Ok", FALSE)

handle_command_quit(t, arg, ok) == Effect(t, <<"221 " \o ServerDomain>>, "Err", FALSE)

SmtpHandler(command_start, allowed_states, callback) ==
    [command_start |-> command_start, allowed_states |-> allowed_states,
     callback |-> callback]

get_handlers ==
    LET all == {"Init", "Helo", "Mail", "Rcpt", "Data"}
    IN  << SmtpHandler("HELO ", {"Init"}, "handle_command_helo"),
           SmtpHandler("EHLO ", {"Init"}, "handle_command_helo"),
           SmtpHandler("MAIL FROM:", {"Helo"}, "handle_command_mail"),
           SmtpHandler("RCPT TO:", {"Mail", "Rcpt"}, "handle_command_rcpt"),
           SmtpHandler("DATA", {"Rcpt"}, "handle_command_data"),
           SmtpHandler("RSET", all, "handle_command_rset"),
           SmtpHandler("VRFY ", all, "handle_command_vrfy"),
           SmtpHandler("EXPN ", all, "handle_command_expn"),
           SmtpHandler("HELP", all, "handle_command_help"),
           SmtpHandler("NOOP", all, "handle_command_noop"),
           SmtpHandler("QUIT", all, "handle_command_quit") >>

\* (handler.callback)(stream, state, config, event_handler, rest)
callback(name, t, rest, ok) ==
    CASE name = "handle_command_helo" -> handle_command_helo(t, rest, ok)
      [] name = "handle_command_mail" -> handle_command_mail(t, rest, ok)
      [] name = "handle_command_rcpt" -> handle_command_rcpt(t, rest, ok)
      [] name = "handle_command_data" -> handle_command_data(t, rest, ok)
      [] name = "handle_command_rset" -> handle_command_rset(t, rest, ok)
      [] name = "handle_command_vrfy" -> handle_command_vrfy(t, rest, ok)
      [] name = "handle_command_expn" -> handle_command_expn(t, rest, ok)
      [] name = "handle_command_help" -> handle_command_help(t, rest, ok)
      [] name = "handle_command_noop" -> handle_command_noop(t, rest, ok)
      [] name = "handle_command_quit" -> handle_command_quit(t, rest, ok)

(***************************************************************************)
(* src/server/mod.rs: the dispatcher.                                      *)
(***************************************************************************)
\* a handler_matches that compares the line as it is
handler_matches_case(h, l) ==
    /\ Len(l) >= Len(h.command_start)
    /\ slice_to(l, Len(h.command_start)) = h.command_start

\* whether handler h matches the line l
handler_matches(h, l) ==
    /\ Len(l) >= Len(h.command_start)
    /\ into_ascii_upper(slice_to(l, Len(h.command_start))) = h.command_start

\* the loop of get_handler_for_line, from handler i on
RECURSIVE handler_loop(_, _, _)
handler_loop(handlers, l, i) ==
    IF i > Len(handlers) THEN 0
    ELSE IF handler_matches(handlers[i], l) THEN i
    ELSE handler_loop(handlers, l, i + 1)

\* get_handler_for_line: the index of the first matching handler, 0 for None
get_handler_for_line(handlers, l) == handler_loop(handlers, l, 1)

\* a dispatch that starts the transaction over on an unknown command
dispatch_unknown_resets(t, l, h, ok) ==
    IF h = 0 THEN Effect(reset(t), <<"500 Command unrecognized">>, "Ok", FALSE)
    ELSE IF t.state \in get_handlers[h].allowed_states
    THEN callback(get_handlers[h].callback, t,
                  slice_from(l, Len(get_handlers[h].command_start)), ok)
    ELSE Effect(t, <<"503 Bad sequence of commands">>, "Ok", FALSE)

\* a dispatch without the allowed_states test
dispatch_ungated(t, l, h, ok) ==
    IF h = 0 THEN Effect(t, <<"500 Command unrecognized">>, "Ok", FALSE)
    ELSE callback(get_handlers[h].callback, t,
                  slice_from(l, Len(get_handlers[h].command_start)), ok)

\* get_reply once get_line_and_handler has returned the line l and the
\* handler of index h (0 for None)
dispatch(t, l, h, ok) ==
    IF h = 0 THEN Effect(t, <<"500 Command unrecognized">>, "Ok", FALSE)
    ELSE IF t.state \in get_handlers[h].allowed_states
    THEN callback(get_handlers[h].callback, t,
                  slice_from(l, Len(get_handlers[h].command_start)), ok)
    ELSE Effect(t, <<"503 Bad sequence of commands">>, "Ok", FALSE)

\* get_reply on read_line's result rl, with the loop's handling of it
get_reply(t, rl, ok) ==
    IF rl.err = IoOk
    THEN dispatch(t, rl.line, get_handler_for_line(get_handlers, rl.line), ok)
    ELSE IF rl.err[1].kind = "InvalidInput"
    THEN Effect(t, <<"500 Command line too long, max is 512 bytes">>, "Ok", FALSE)
    ELSE Effect(t, <<>>, "Panic", FALSE)

(***************************************************************************)
(* One client session: the task spawned for an accepted connection, and    *)
(* the client at the other end of its TcpStream.                           *)
(***************************************************************************)
VARIABLES
    wire,         \* bytes the client has sent that the server has not read
    peer,         \* the client's end: "open", "closed" (EOF) or "reset"
    shortReads,   \* whether a read may return fewer bytes than are pending
    buf,          \* SmtpStream.buf
    cap,          \* SmtpStream.buf.capacity()
    transaction,  \* the session's SmtpTransaction
    pc,           \* "accept", "command" (inner_loop), "data" (read_data), "closed"
    handler,      \* the index in get_handlers of the handler that the last
                  \* get_line_and_handler returned, 0 for None
    data,         \* read_data's accumulator while read_data runs
    err,          \* the error of the last read_line / read_data, or IoOk
    out,          \* the lines written by the last server step
    mode,         \* "free": any client and embedder; "script": a scripted
                  \* client and the default SmtpServerEventHandler; "pipe":
                  \* the same with a client that does not wait for replies
    script,       \* the lines the scripted client sends
    sent,         \* how many of them it has sent
    replies,      \* every line the scripted client has received so far
    results,      \* what the read_line calls made on the stream itself have
                  \* returned so far (mode "stream")
    calls,        \* the embedder's methods called by the last server step
    server        \* SmtpServer::run: the acceptor and the tasks it has spawned

\* the variables of one session
session == << wire, peer, shortReads, buf, cap, transaction, pc, handler, data, err,
              out, mode, script, sent, replies, results, calls >>

vars == << wire, peer, shortReads, buf, cap, transaction, pc, handler, data, err,
           out, mode, script, sent, replies, results, calls, server >>

LongLine == from_char(MaxLineSize + 1, "x")

\* the longest content that fits a buffer of max_line_size with its <CRLF>,
\* and one byte more
FitLine == from_char(MaxLineSize - 2, "x")
OverLine == from_char(MaxLineSize - 1, "x")

CommandLines ==
    { "HELO x", "EHLO x", "helo x", "HELO -", "HELO ", "HELO",
      "MAIL FROM:<a@b>", "MAIL FROM:<>", "MAIL FROM:<bad>", "MAIL FROM:",
      "RCPT TO:<c@d>", "RCPT TO:<>", "RCPT TO:",
      "DATA", "DATA x", "RSET", "RSET x", "VRFY x", "EXPN x",
      "HELP", "HELPx", "NOOP", "NOOPx", "QUIT", "FOO",
      "mail FROM:<a@b>", "rcpt to:<c@d>", "noop", "VRFY", "MAIL FROM", "EHLO x y",
      "RCPT TO:<a@>", "MAIL FROM:<@b>" }

BodyLines == { "hi", ".", "", "..", ".a", from_char(MaxMessageSize, "z") }

\* a line that the buffer cannot hold with its <CRLF> once find_line has
\* reserved max_line_size for it
BufLine == from_char(next_power_of_two(MaxLineSize) - 1, "x")

Lines == CommandLines \cup BodyLines \cup { FitLine, OverLine, LongLine, BufLine }

Envelope == << "HELO x", "MAIL FROM:<a@b>", "RCPT TO:<c@d>", "DATA" >>

\* bodies that hold some data and fit max_message_size
GoodBodies ==
    { << "hi" >>, << "a", "b" >>, << "hi", "" >>, << "a", "", "b" >>, << ".." >>,
      << ".a" >>, << from_char(MaxMessageSize, "z") >> }

\* bodies with no data before the terminating line
EmptyBodies == { << >>, << "" >>, << "", "" >> }

\* bodies larger than max_message_size
LargeBodies ==
    { << from_char(MaxMessageSize + 1, "x") >>,
      << "hi", from_char(MaxMessageSize - 1, "y") >>,
      << from_char(MaxMessageSize + 1, "x"), "RSET" >> }

RECURSIVE repeat(_, _)
repeat(n, l) == IF n = 0 THEN << >> ELSE << l >> \o repeat(n - 1, l)

Scripts ==
    { Envelope \o b \o << "." >> : b \in GoodBodies \cup EmptyBodies \cup LargeBodies }
    \cup { << "HELO x", "MAIL FROM:<a@b>" >> \o repeat(MaxRecipients + 1, "RCPT TO:<c@d>") }

\* what the embedder's callbacks may return (TRUE for Ok(()))
EventResults == IF mode = "free" THEN BOOLEAN ELSE { TRUE }

\* how many bytes a read into room r may return when w is pending
ReadSizes(w, r) ==
    IF w = "" \/ r <= 0 THEN { 0 }
    ELSE IF shortReads THEN 1..Min(r, Len(w))
    ELSE { Min(r, Len(w)) }

\* a write that reaches the client ahead of the replies written before it
write_ahead(written) ==
    IF mode # "free" /\ peer = "open" THEN written \o replies ELSE replies

\* the scripted client receives what is written while it is there
Log(written) ==
    IF mode # "free" /\ peer = "open" THEN replies \o written ELSE replies

\* SmtpServer::new_from_acceptor: the server before run; event_handler
\* counts the calls made on the server's own event handler
SmtpServer_new ==
    [running |-> TRUE, accept_errors |-> 0, event_handler |-> 0, tasks |-> << >>]

InitSession ==
    /\ wire = ""
    /\ peer = "open"
    /\ shortReads = FALSE
    /\ buf = ""
    /\ cap = MaxLineSize
    /\ transaction = SmtpTransaction_new
    /\ pc = "accept"
    /\ handler = 0
    /\ data = ""
    /\ err = IoOk
    /\ out = << >>
    /\ sent = 0
    /\ replies = << >>
    /\ results = << >>
    /\ calls = << >>
    /\ server = SmtpServer_new

Init == InitSession /\ mode = "free" /\ script = << >>

InitScript == InitSession /\ mode = "script" /\ script \in Scripts

\* what the pipelining client sends
PipeScripts ==
    { Envelope \o << "hi", ".", "NOOP" >>,
      << "NOOP", "FOO", "HELO x", "MAIL FROM:<a@b>", "RSET", "VRFY x" >>,
      << "HELO x", "QUIT", "NOOP" >>,
      << "MAIL FROM:<a@b>", "helo x", "RCPT TO:<c@d>", "HELP", "DATA" >>,
      << "HELO x", "MAIL FROM:<a@b>", "RCPT TO:", "NOOP" >> }

InitPipe == InitSession /\ mode = "pipe" /\ script \in PipeScripts

\* a handle_client that writes the greeting before it asks the embedder
greeting_first ==
    /\ pc = "accept"
    /\ \E ok \in EventResults : pc' = IF ok THEN "command" ELSE "closed"
    /\ out' = << "220 " \o ServerDomain >>
    /\ replies' = Log(out')
    /\ calls' = << "handle_connection" >>
    /\ UNCHANGED << wire, peer, shortReads, buf, cap, transaction, handler, data, err,
                    mode, script, sent, results, server >>

\* handle_client: handle_connection(..).unwrap(), SmtpStream::new, the greeting
Accept ==
    /\ pc = "accept"
    /\ \E ok \in EventResults :
         /\ pc' = IF ok THEN "command" ELSE "closed"
         /\ out' = IF ok THEN << "220 " \o ServerDomain >> ELSE << >>
         /\ replies' = Log(out')
    /\ calls' = << "handle_connection" >>
    /\ UNCHANGED << wire, peer, shortReads, buf, cap, transaction, handler, data, err,
                    mode, script, sent, results, server >>

\* the client sends one line: once the server has taken the previous one,
\* or at any time when it pipelines (mode "pipe")
ClientSend ==
    /\ peer = "open"
    /\ pc \in { "command", "data" }
    /\ wire = "" \/ mode = "pipe"
    /\ \E l \in (IF mode = "free" THEN Lines
                 ELSE IF sent < Len(script) THEN { script[sent + 1] } ELSE { }) :
         wire' = wire \o l \o CRLF
    /\ sent' = IF mode = "free" THEN sent ELSE sent + 1
    /\ UNCHANGED << peer, shortReads, buf, cap, transaction, pc, handler, data, err,
                    out, mode, script, replies, results, calls, server >>

\* the client closes its end, or the connection breaks
ClientClose ==
    /\ peer = "open"
    /\ peer' \in { "closed", "reset" }
    /\ UNCHANGED << wire, shortReads, buf, cap, transaction, pc, handler, data, err,
                    out, mode, script, sent, replies, results, calls, server >>

\* one turn of inner_loop: get_reply, then write_line(..).unwrap() / fail!
ServerCommand ==
    /\ pc = "command"
    /\ read_line_returns(buf, cap, wire, peer)
    /\ \E n \in ReadSizes(wire, cap - Len(buf)), ok \in EventResults :
         \E rl \in { read_line(buf, cap, wire, peer, n) } :
         \E e \in { get_reply(transaction, rl, ok) } :
             /\ buf' = rl.buf
             /\ cap' = rl.cap
             /\ wire' = rl.wire
             /\ err' = rl.err
             /\ handler' = IF rl.err = IoOk
                            THEN get_handler_for_line(get_handlers, rl.line) ELSE 0
             /\ transaction' = e.transaction
             /\ out' = e.written
             /\ calls' = e.calls
             /\ replies' = Log(e.written)
             /\ data' = ""
             /\ pc' = IF e.ret # "Ok" THEN "closed"
                      ELSE IF e.body THEN "data" ELSE "command"
    /\ UNCHANGED << peer, shortReads, mode, script, sent, results, server >>

\* one turn of read_data's loop and, when read_data returns, the rest of
\* handle_command_data
ServerData ==
    /\ pc = "data"
    /\ read_line_returns(buf, cap, wire, peer)
    /\ \E n \in ReadSizes(wire, cap - Len(buf)) :
         \E rl \in { read_line(buf, cap, wire, peer, n) } :
         \E rd \in { read_data_step(data, rl) } :
         \E e \in { handle_command_data_end(transaction, rd) } :
             /\ buf' = rl.buf
             /\ cap' = rl.cap
             /\ wire' = rl.wire
             /\ err' = rd.err
             /\ handler' = handler
             /\ data' = IF rd.done THEN "" ELSE rd.data
             /\ transaction' = IF rd.done THEN e.transaction ELSE transaction
             /\ out' = IF rd.done THEN e.written ELSE << >>
             /\ calls' = IF rd.done THEN e.calls ELSE << >>
             /\ replies' = Log(out')
             /\ pc' = IF ~rd.done THEN "data"
                      ELSE IF e.ret # "Ok" THEN "closed" ELSE "command"
    /\ UNCHANGED << peer, shortReads, mode, script, sent, results, server >>

\* a write_line(..).unwrap() on a connection the client has left fails
WriteFails ==
    /\ pc \in { "command", "data" }
    /\ peer # "open"
    /\ pc' = "closed"
    /\ out' = << >>
    /\ calls' = << >>
    /\ UNCHANGED << wire, peer, shortReads, buf, cap, transaction, handler, data, err,
                    mode, script, sent, replies, results, server >>

Next ==
    \/ Accept
    \/ ClientSend
    \/ ClientClose
    \/ ServerCommand
    \/ ServerData
    \/ WriteFails

Spec == Init /\ [][Next]_vars

\* the session's task is scheduled: handle_client and the loops of
\* inner_loop and read_data take their next step whenever they can.  No
\* fairness for the client, nor for the failure of a write.
SpecLive ==
    /\ Init
    /\ [][Next]_vars
    /\ WF_vars(Accept)
    /\ WF_vars(ServerCommand)
    /\ WF_vars(ServerData)

SpecScript == InitScript /\ [][Next]_vars

SpecPipe == InitPipe /\ [][Next]_vars

(***************************************************************************)
(* The stream on its own, as the tests of src/common/stream.rs use it: a   *)
(* SmtpStream over an input that ends, read by successive read_line calls. *)
(* The underlying reader may return fewer bytes than are asked for.        *)
(***************************************************************************)
RECURSIVE join(_)
join(ls) == IF ls = << >> THEN "" ELSE Head(ls) \o CRLF \o join(Tail(ls))

StreamInputs ==
    { << >>, << "a" >>, << "a", "bc" >>, << "", "a" >>, << "bc", "", "a" >>,
      << FitLine >>, << "a", FitLine >>, << FitLine, "bc" >>,
      << "a\rb\nc", "d" >>, << "a\r", "\nb" >> }

InitStream ==
    /\ mode = "stream"
    /\ script \in StreamInputs
    /\ wire = join(script)
    /\ peer = "closed"
    /\ shortReads = TRUE
    /\ buf = ""
    /\ cap = MaxLineSize
    /\ transaction = SmtpTransaction_new
    /\ pc = "stream"
    /\ handler = 0
    /\ data = ""
    /\ err = IoOk
    /\ out = << >>
    /\ sent = 0
    /\ replies = << >>
    /\ results = << >>
    /\ calls = << >>
    /\ server = SmtpServer_new

\* one read_line call; the calls end with the one that fails with nothing
\* left to read
TestReadLine ==
    /\ pc = "stream"
    /\ \E n \in ReadSizes(wire, cap - Len(buf)) :
         \E rl \in { read_line(buf, cap, wire, peer, n) } :
             /\ buf' = rl.buf
             /\ cap' = rl.cap
             /\ wire' = rl.wire
             /\ err' = rl.err
             /\ results' = Append(results, [err |-> rl.err, line |-> rl.line])
             /\ pc' = IF rl.err # IoOk /\ stream_read(wire, peer, cap - Len(buf)) # "data"
                      THEN "closed" ELSE "stream"
    /\ UNCHANGED << peer, shortReads, transaction, handler, data, out, mode, script,
                    sent, replies, calls, server >>

NextStream == TestReadLine

SpecStream == InitStream /\ [][NextStream]_vars

(***************************************************************************)
(* src/server/mod.rs: SmtpServer::run, one task per accepted connection.   *)
(* A task is handle_client for one client; its client sends the lines of   *)
(* one of TaskScripts, each after the reply to the one before.             *)
(***************************************************************************)
MaxConns == 2
MaxAcceptErrors == 1

TaskScripts ==
    { << "HELO x", "MAIL FROM:<a@b>", "RCPT TO:<c@d>", "DATA", "a", "." >>,
      << "HELO x", "MAIL FROM:<>", "RCPT TO:" >> }

\* what the proc given to spawn owns: the cloned stream (its client's
\* script, the lines taken, the replies written), the clone of the event
\* handler (the calls made on it) and, once in inner_loop, the transaction
Task(sc, eh) ==
    [script |-> sc, taken |-> 0, replies |-> << >>, event_handler |-> eh,
     transaction |-> SmtpTransaction_new, data |-> "", pc |-> "accept", ret |-> "Ok"]

\* handle_client up to inner_loop
task_greet(k) ==
    [k EXCEPT !.event_handler = @ + 1, !.replies = << "220 " \o ServerDomain >>,
              !.pc = "command"]

\* the task after its handler has had effect e on the next line
task_effect(k, e, done) ==
    [k EXCEPT !.taken = @ + 1,
              !.transaction = IF done THEN e.transaction ELSE @,
              !.replies = IF done THEN @ \o e.written ELSE @,
              !.event_handler = IF done THEN @ + Len(e.calls) ELSE @,
              !.ret = IF done THEN e.ret ELSE "Ok",
              !.pc = IF ~done THEN "data"
                     ELSE IF e.ret # "Ok" THEN "closed"
                     ELSE IF e.body THEN "data" ELSE "command"]

\* one turn of inner_loop, or of read_data's loop, on the line l
task_step(k, l) ==
    IF k.pc = "command"
    THEN [task_effect(k, get_reply(k.transaction, [err |-> IoOk, line |-> l], TRUE), TRUE)
             EXCEPT !.data = ""]
    ELSE LET rd == read_data_step(k.data, [err |-> IoOk, line |-> l])
         IN  [task_effect(k, handle_command_data_end(k.transaction, rd), rd.done)
                 EXCEPT !.data = IF rd.done THEN "" ELSE rd.data]

\* the task when its stream fails: peer_name().unwrap() in handle_client,
\* fail!(err) in inner_loop, fail!() in handle_command_data
task_fail(k) == [k EXCEPT !.pc = "closed", !.ret = "Panic"]

\* a run that calls handle_client in the acceptor's own task: a failure
\* unwinds the acceptor's loop and what it owns
run_inline(s, i, k) ==
    IF k.ret = "Panic"
    THEN [s EXCEPT !.running = FALSE,
                   !.tasks = [j \in DOMAIN s.tasks |-> task_fail(s.tasks[j])]]
    ELSE [s EXCEPT !.tasks[i] = k]

\* spawn(proc() { handle_client(..) }): the task i has moved to k; what it
\* owns was moved into the proc, and its failure unwinds only itself
spawned(s, i, k) == [s EXCEPT !.tasks[i] = k]

InitServer ==
    /\ InitSession
    /\ mode = "server"
    /\ script = << >>

\* run: Ok(stream) from acceptor.incoming()
RunAccept ==
    /\ server.running
    /\ Len(server.tasks) < MaxConns
    /\ \E sc \in TaskScripts :
         server' = [server EXCEPT
                       !.tasks = Append(@, Task(sc, server.event_handler))]

\* run: an accept error is ignored
RunAcceptError ==
    /\ server.running
    /\ server.accept_errors < MaxAcceptErrors
    /\ server' = [server EXCEPT !.accept_errors = @ + 1]

TaskGreet(i) ==
    /\ server.tasks[i].pc = "accept"
    /\ server' = spawned(server, i, task_greet(server.tasks[i]))

TaskStep(i) ==
    /\ server.tasks[i].pc \in { "command", "data" }
    /\ server.tasks[i].taken < Len(server.tasks[i].script)
    /\ server' = spawned(server, i,
                         task_step(server.tasks[i],
                                   server.tasks[i].script[server.tasks[i].taken + 1]))

TaskFail(i) ==
    /\ server.tasks[i].pc \in { "accept", "command", "data" }
    /\ server' = spawned(server, i, task_fail(server.tasks[i]))

NextServer ==
    \/ ( RunAccept /\ UNCHANGED session )
    \/ ( RunAcceptError /\ UNCHANGED session )
    \/ \E i \in DOMAIN server.tasks : TaskGreet(i) /\ UNCHANGED session
    \/ \E i \in DOMAIN server.tasks : TaskStep(i) /\ UNCHANGED session
    \/ \E i \in DOMAIN server.tasks : TaskFail(i) /\ UNCHANGED session

SpecServer == InitServer /\ [][NextServer]_vars

(***************************************************************************)
(* src/common/mailbox.rs: test_mailbox.  Mailbox::parse applied to inputs  *)
(* put together from a source route, a local part, what follows it, a      *)
(* foreign part and a tail; the input is kept as its five pieces in        *)
(* script, the results are collected in results.                           *)
(***************************************************************************)
\* a domain of n >= 1 octets, in labels of seven octets
RECURSIVE dom(_)
dom(n) == IF n <= 9 THEN from_char(n, "a") ELSE "aaaaaaa." \o dom(n - 8)

\* a dot-string of n >= 1 octets, in atoms of seven octets
RECURSIVE loc(_)
loc(n) == IF n <= 9 THEN from_char(n, "u") ELSE "uuuuuuu." \o loc(n - 8)

\* a quoted-string of n >= 2 octets, quotes included
quoted(n) == "\"" \o from_char(n - 2, " ") \o "\""

Routes == { "", "@r.s:" }

\* prefixes that are not source routes: no ':', no ':' after the comma, a
\* domain that is none, no domain at all
BadRoutes == { "@r.s", "@r.s,", "@r{s:", "@,@:", "@r,:", ":" }

DotLocals ==
    { "a", "Rust.Is", "a{", "PosTMAster", "postmaster", "POSTMASTER", "postmaste",
      "postmaster.x", "rust", loc(63), loc(MAX_MAILBOX_LOCAL_PART_LEN) }

QuotedLocals ==
    { "\"\"", "\"a\"", "\"a b\"", "\"a.b\"", "\"a.\"", "\"\\a\"", "\"a\\\"b\"",
      "\"\\\\\"", "\"PostMaster\"", "\"post\\master\"", "\"postmaster \"",
      "\"a\\{\"", "\"r\\\\\\b\\;.c\\\"o\"", "\"rust \\a cool\"",
      quoted(MAX_MAILBOX_LOCAL_PART_LEN) }

LongLocals ==
    { loc(MAX_MAILBOX_LOCAL_PART_LEN + 1), quoted(MAX_MAILBOX_LOCAL_PART_LEN + 1) }

BadLocals == { "", ".a", " a", "\"a", "\"", ">" }

Locals == DotLocals \cup QuotedLocals \cup LongLocals \cup BadLocals

\* what follows the local part in an input without '@'
NoAt == { "", " ", ">", "." }

Domains ==
    { "b", "t.com", "a-b.c0", dom(MAX_MAILBOX_LEN - 65), dom(MAX_MAILBOX_LEN - 64),
      dom(MAX_MAILBOX_LEN - 5), dom(MAX_MAILBOX_LEN - 4), dom(MAX_DOMAIN_LEN) }

LongDomains == { dom(MAX_DOMAIN_LEN + 1) }

Literals == { "[127.0.0.1]", "[Ipv6:::1]" }

BadForeigns ==
    { "", "{}", "-a", ".a", "[127.0.0.1", "[00.0.1]", "[::1]", "[Ipv6: ::1]" }

Foreigns == Domains \cup LongDomains \cup Literals \cup BadForeigns

Tails == { "", "{", " ", "." }

ParseInputs ==
    { << r, l, "@", f, t >> : r \in Routes, l \in Locals, f \in Foreigns, t \in Tails }
    \cup { << r, l, n, "", "" >> : r \in Routes, l \in Locals, n \in NoAt }
    \cup { << r, l, "@", f, "" >> : r \in BadRoutes, l \in { "a", "\"a b\"" },
                                     f \in { "b", "[127.0.0.1]" } }

\* the &str given to Mailbox::parse
input_of(sc) == sc[1] \o sc[2] \o sc[3] \o sc[4] \o sc[5]

InitParse ==
    /\ mode = "parse"
    /\ script \in ParseInputs
    /\ wire = ""
    /\ peer = "closed"
    /\ shortReads = FALSE
    /\ buf = ""
    /\ cap = MaxLineSize
    /\ transaction = SmtpTransaction_new
    /\ pc = "parse"
    /\ handler = 0
    /\ data = ""
    /\ err = IoOk
    /\ out = << >>
    /\ sent = 0
    /\ replies = << >>
    /\ results = << >>
    /\ calls = << >>
    /\ server = SmtpServer_new

\* Mailbox::parse(s)
TestParse ==
    /\ pc = "parse"
    /\ results' = << MailboxParse(input_of(script)) >>
    /\ pc' = "parsed"
    /\ UNCHANGED << wire, peer, shortReads, buf, cap, transaction, handler, data, err,
                    out, mode, script, sent, replies, calls, server >>

\* the mailbox as it is written in SMTP: the local part's smtp_string, '@',
\* and the domain or the bracketed address literal
smtp_serialization(m) ==
    m.local_part.smtp_string \o "@"
        \o ( IF m.foreign_part.kind = "Domain" THEN m.foreign_part.value
             ELSE IF ipv4_groups(m.foreign_part.value, 4)
                  THEN "[" \o m.foreign_part.value \o "]"
                  ELSE "[Ipv6:" \o m.foreign_part.value \o "]" )

\* Mailbox::parse of the serialization of a mailbox that parse has returned
TestReparse ==
    /\ pc = "parsed"
    /\ results[1].err = ""
    /\ results' = Append(results, MailboxParse(smtp_serialization(results[1].mailbox[1])))
    /\ pc' = "reparsed"
    /\ UNCHANGED << wire, peer, shortReads, buf, cap, transaction, handler, data, err,
                    out, mode, script, sent, replies, calls, server >>

NextParse == TestParse \/ TestReparse

SpecParse == InitParse /\ [][NextParse]_vars

(***************************************************************************)
(* Properties.                                                             *)
(***************************************************************************)
\* what the server's next read_line returns when a read takes all it can
Incoming == read_line(buf, cap, wire, peer, Min(cap - Len(buf), Len(wire)))

\* the handler get_line_and_handler finds for that line, 0 for None
IncomingHandler ==
    IF Incoming.err = IoOk THEN get_handler_for_line(get_handlers, Incoming.line) ELSE 0

\* the step is a turn of inner_loop that took a line from the client
CommandStep == pc = "command" /\ Len(wire') < Len(wire) /\ Incoming.err = IoOk

\* the step is a turn of read_data's loop that took a line from the client
DataStep == pc = "data" /\ Len(wire') < Len(wire) /\ Incoming.err = IoOk

HandlerOf(command_start) ==
    CHOOSE h \in 1..Len(get_handlers) : get_handlers[h].command_start = command_start

Reply250 == << "250 OK" >>
Reply503 == << "503 Bad sequence of commands" >>
Reply452 == << "452 Too many recipients" >>

\* C1: a line that matches a handler whose allowed_states do not hold the
\* transaction's state is answered 503 Bad sequence of commands and nothing
\* else is written, the session goes on to the next command, and the
\* transaction (state, domain, from, to, data) is what it was: the handler
\* did not run.
C1_DisallowedStateIs503 ==
    [][ ( /\ CommandStep
          /\ IncomingHandler # 0
          /\ transaction.state \notin get_handlers[IncomingHandler].allowed_states )
        => ( /\ out' = Reply503
             /\ transaction' = transaction
             /\ pc' = "command" ) ]_vars

\* a MAIL FROM: answered 503 in state Rcpt, with the envelope kept
C1_Witness ==
    /\ handler = HandlerOf("MAIL FROM:")
    /\ out = Reply503
    /\ transaction.state = "Rcpt"
    /\ Len(transaction.to) = 1
    /\ transaction.from # << >>

\* C2: every step that changes transaction.state is Init->Helo by a HELO or
\* EHLO answered 250, Helo->Mail by a MAIL FROM: answered 250, Mail->Rcpt by
\* a RCPT TO: answered 250, Rcpt->Helo by the DATA handler returning from
\* read_data with 250, or a state other than Init to Helo by a RSET answered
\* 250; no other step changes it.
C2_StateChanges ==
    [][ transaction'.state # transaction.state
        => \/ /\ CommandStep
              /\ IncomingHandler \in { HandlerOf("HELO "), HandlerOf("EHLO ") }
              /\ transaction.state = "Init" /\ transaction'.state = "Helo"
              /\ out' = Reply250
           \/ /\ CommandStep
              /\ IncomingHandler = HandlerOf("MAIL FROM:")
              /\ transaction.state = "Helo" /\ transaction'.state = "Mail"
              /\ out' = Reply250
           \/ /\ CommandStep
              /\ IncomingHandler = HandlerOf("RCPT TO:")
              /\ transaction.state = "Mail" /\ transaction'.state = "Rcpt"
              /\ out' = Reply250
           \/ /\ DataStep
              /\ handler = HandlerOf("DATA")
              /\ transaction.state = "Rcpt" /\ transaction'.state = "Helo"
              /\ out' = Reply250
           \/ /\ CommandStep
              /\ IncomingHandler = HandlerOf("RSET")
              /\ transaction.state # "Init" /\ transaction'.state = "Helo"
              /\ out' = Reply250 ]_vars

\* a second RCPT TO: accepted: the session went Init, Helo, Mail, Rcpt, Rcpt
C2_Witness ==
    /\ handler = HandlerOf("RCPT TO:")
    /\ out = Reply250
    /\ transaction.state = "Rcpt"
    /\ Len(transaction.to) = 2

\* the scripted client sends the envelope and one of the bodies that hold
\* data and fit, and stays connected
GoodRun ==
    /\ mode = "script"
    /\ script \in { Envelope \o b \o << "." >> : b \in GoodBodies }
    /\ peer = "open"

\* the server has taken all that the scripted client sends
AllTaken == pc \notin { "accept" } /\ sent = Len(script) /\ wire = "" /\ buf = ""

IsPrefix(p, q) == Len(p) <= Len(q) /\ SubSeq(q, 1, Len(p)) = p

HappyReplies ==
    << "220 " \o ServerDomain, "250 OK", "250 OK", "250 OK",
       "354 Start mail input; end with <CRLF>.<CRLF>", "250 OK" >>

C4_Rset ==
    [][ ( CommandStep /\ into_ascii_upper(Incoming.line) = "RSET" )
        => ( /\ out' = Reply250
             /\ pc' = "command"
             /\ transaction' =
                  [ domain |-> transaction.domain, to |-> << >>, from |-> << >>,
                    data |-> "",
                    state |-> IF transaction.state = "Init" THEN "Init" ELSE "Helo" ] ) ]_vars

\* a RSET answered 250 OK after a HELO: state Helo, nothing in the envelope
C4_Witness ==
    /\ handler = HandlerOf("RSET")
    /\ out = Reply250
    /\ transaction.state = "Helo"
    /\ transaction.to = << >>
    /\ transaction.from = << >>
    /\ transaction.domain = "x"

\* C5: the transaction never holds more than max_recipients recipients: a
\* RCPT TO: taken in Mail or Rcpt when to already holds max_recipients is
\* answered 452 Too many recipients and changes nothing, and a valid one
\* taken below the limit adds exactly one recipient when it is answered 250.
C5_RecipientLimit ==
    /\ [](Len(transaction.to) <= MaxRecipients)
    /\ [][ ( /\ CommandStep
             /\ IncomingHandler = HandlerOf("RCPT TO:")
             /\ transaction.state \in { "Mail", "Rcpt" } )
           => IF Len(transaction.to) >= MaxRecipients
              THEN out' = Reply452 /\ transaction' = transaction /\ pc' = "command"
              ELSE /\ out' # Reply452
                   /\ out' = Reply250 <=> Len(transaction'.to) = Len(transaction.to) + 1
                   /\ out' # Reply250 => transaction' = transaction ]_vars

\* max_recipients recipients recorded and one more RCPT TO: answered 452
C5_Witness ==
    /\ handler = HandlerOf("RCPT TO:")
    /\ out = Reply452
    /\ Len(transaction.to) = MaxRecipients
    /\ transaction.state = "Rcpt"

\* the step is a turn of inner_loop whose read took bytes and found no line
TooLongStep == pc = "command" /\ Len(wire') < Len(wire) /\ Incoming.err # IoOk

Reply500TooLong ==
    << "500 Command line too long, max " \o ToString(MaxLineSize) \o " bytes" >>

\* C6: a read that leaves more than max_line_size bytes without a <CRLF> is
\* answered 500 Command line too long, max N bytes with N the configured
\* max_line_size, the session goes on, and the buffer is left with room, so
\* that the next read can take what the client sends next.
C6_TooLongThenRecovers ==
    [][ TooLongStep
        => ( /\ out' = Reply500TooLong
             /\ pc' = "command"
             /\ Len(buf') < cap' ) ]_vars

\* the buffer is full and holds no line, input is pending, and the reply
\* names 512 bytes: every later read_line fails the same way
C6_Stuck ==
    /\ pc = "command"
    /\ peer = "open"
    /\ Len(buf) = cap
    /\ position_crlf(buf) < 0
    /\ wire # ""
    /\ out = << "500 Command line too long, max is 512 bytes" >>

Reply552 ==
    << "552 Too much mail data, max " \o ToString(MaxMessageSize) \o " bytes" >>

\* C7: once DATA has been answered 552 Too much mail data, max N bytes, the
\* transaction is reset: the state is Helo and from, to and data are empty.
C7_ResetAfter552 ==
    ( handler = HandlerOf("DATA") /\ out = Reply552 )
    => ( /\ transaction.state = "Helo"
         /\ transaction.from = << >>
         /\ transaction.to = << >>
         /\ transaction.data = "" )

\* the scripted client has received 354 and 552 for a body of
\* max_message_size + 1 bytes and the transaction still holds the envelope
C7_Kept ==
    /\ mode = "script"
    /\ script = Envelope \o << from_char(MaxMessageSize + 1, "x"), "." >>
    /\ replies = << "220 " \o ServerDomain, "250 OK", "250 OK", "250 OK",
                    "354 Start mail input; end with <CRLF>.<CRLF>", Reply552[1] >>
    /\ transaction.state = "Rcpt"
    /\ Len(transaction.to) = 1
    /\ transaction.from # << >>

\* C8: a data line of more than one character that starts with '.' is added
\* to the body without that '.', and read_data returns Ok only on a line
\* that is exactly '.'.
C8_DotStuffing ==
    [][ DataStep
        => ( /\ ( /\ Len(Incoming.line) > 1
                  /\ char_at(Incoming.line, 0) = "."
                  /\ pc' = "data" )
                => data' = data \o slice_from(Incoming.line, 1)
             /\ ( pc' # "data" /\ err' = IoOk ) => Incoming.line = "." ) ]_vars

\* the line '..' has been added to the body with both its dots
C8_Kept == pc = "data" /\ handler = HandlerOf("DATA") /\ data = ".."

\* C9: read_data returns Ok at the first line that is exactly '.', whatever
\* came before it, and every line before it is added to the body in order.
C9_FirstDotTerminates ==
    [][ DataStep
        => IF Incoming.line = "."
           THEN pc' = "command" /\ err' = IoOk /\ out' = Reply250
           ELSE pc' = "data" => data' = data \o Incoming.line ]_vars

\* the '.' line sent right after DATA has become the body and read_data
\* still waits
C9_DotSwallowed ==
    /\ mode = "script"
    /\ script = Envelope \o << "." >>
    /\ sent = Len(script)
    /\ wire = ""
    /\ pc = "data"
    /\ data = "."

TooMuchData == IoError("InvalidInput", DATA_TOO_LONG)

ReadStep == pc \in { "command", "data" } /\ Len(wire') < Len(wire)

\* C11: whatever read_line calls came before, the buffer never holds more
\* than max_line_size bytes once a read has filled it, and a line that
\* read_line returns is never longer than max_line_size.
C11_BoundedBuffer ==
    [][ ReadStep
        => ( /\ Len(buf) + (Len(wire) - Len(wire')) <= MaxLineSize
             /\ Incoming.err = IoOk => Len(Incoming.line) <= MaxLineSize ) ]_vars

\* find_line has re-allocated the buffer above max_line_size and the next
\* read_line returns a line of max_line_size + 1 bytes
C11_Grown ==
    /\ pc = "command"
    /\ cap > MaxLineSize
    /\ wire = LongLine \o CRLF
    /\ Incoming.err = IoOk
    /\ Len(Incoming.line) > MaxLineSize

TooLong == IoError("InvalidInput", LINE_TOO_LONG)

\* C12: a read_line that takes a line of max_line_size - 2 bytes and its
\* <CRLF> succeeds, and one that takes a line of max_line_size - 1 bytes and
\* its <CRLF> fails with kind InvalidInput and description 'line too long'.
C12_Boundary ==
    [][ ( pc = "command" /\ Len(wire') < Len(wire) )
        => ( /\ wire = FitLine \o CRLF => err' = IoOk
             /\ wire = OverLine \o CRLF => err' = TooLong ) ]_vars

\* after a first line the buffer has room for a line of max_line_size - 1
\* bytes and its <CRLF>, and the next read_line returns it
C12_OverLineAccepted ==
    /\ pc = "command"
    /\ cap > MaxLineSize
    /\ wire = OverLine \o CRLF
    /\ Incoming.err = IoOk
    /\ Incoming.line = OverLine

\* C13: for an input L1<CRLF>...Ln<CRLF> of lines within max_line_size,
\* whatever the sizes of the underlying reads, the i-th read_line call
\* returns Li without its <CRLF> for i up to n, every call after those
\* fails, and the calls end with the first failing one, all of the input
\* taken.
C13_SuccessiveLines ==
    mode = "stream" =>
        /\ \A i \in 1..Len(results) :
              IF i <= Len(script)
              THEN results[i] = [err |-> IoOk, line |-> script[i]]
              ELSE results[i].err # IoOk
        /\ pc = "closed" => ( Len(results) = Len(script) + 1 /\ wire = "" /\ buf = "" )

\* the first read took one byte of 'a<CRLF>bc<CRLF>' and the first call
\* failed with 'line too long'
C13_Spurious ==
    /\ mode = "stream"
    /\ script = << "a", "bc" >>
    /\ buf = "a"
    /\ results = << [err |-> TooLong, line |-> ""] >>

\* what a session writes for the lines ls when it takes them one at a time,
\* each reply written before the next line is looked at: t is the
\* transaction, body whether read_data is running, d its accumulator
RECURSIVE serial(_, _, _, _)
serial_command(e, ls) ==
    e.written \o (IF e.ret # "Ok" THEN << >> ELSE serial(e.transaction, e.body, "", ls))

serial_data_end(t, rd, e, ls) ==
    IF ~rd.done THEN serial(t, TRUE, rd.data, ls)
    ELSE e.written \o (IF e.ret # "Ok" THEN << >>
                       ELSE serial(e.transaction, FALSE, "", ls))

serial_data(t, rd, ls) == serial_data_end(t, rd, handle_command_data_end(t, rd), ls)

serial(t, body, d, ls) ==
    IF ls = << >> THEN << >>
    ELSE IF body
    THEN serial_data(t, read_data_step(d, [err |-> IoOk, line |-> Head(ls)]), Tail(ls))
    ELSE serial_command(dispatch(t, Head(ls),
                                 get_handler_for_line(get_handlers, Head(ls)), TRUE),
                        Tail(ls))

SerialReplies(ls) == << "220 " \o ServerDomain >> \o serial(SmtpTransaction_new, FALSE, "", ls)

\* the bytes of the client's lines that read_line has returned as lines
TakenBytes == Len(join(SubSeq(script, 1, sent))) - Len(wire) - Len(buf)

Reply221 == << "221 " \o ServerDomain >>

\* C15: a line that the dispatcher gives to the QUIT handler is answered,
\* in any state, with the one line 221 <server-domain>, the transaction is
\* left as it was and the session ends; once the session has ended it takes
\* nothing more from the client, dispatches nothing and writes nothing.
C15_Quit ==
    /\ [][ ( CommandStep /\ IncomingHandler = HandlerOf("QUIT") )
           => ( /\ out' = Reply221
                /\ transaction' = transaction
                /\ pc' = "closed" ) ]_vars
    /\ [][ pc = "closed"
           => ( /\ pc' = "closed"
                /\ << wire', buf', handler', transaction', out', replies' >>
                     = << wire, buf, handler, transaction, out, replies >> ) ]_vars

\* QUIT answered 221 in state Rcpt: the session has ended
C15_Witness ==
    /\ handler = HandlerOf("QUIT")
    /\ out = Reply221
    /\ pc = "closed"
    /\ transaction.state = "Rcpt"

Reply220 == << "220 " \o ServerDomain >>

\* C16: until handle_client has called the embedder's handle_connection
\* nothing is written and nothing is read; the step that leaves this point
\* reads nothing and either ends the session with nothing written
\* (handle_connection returned Err) or writes the one line
\* 220 <server-domain> and goes on to read the first command.
C16_Connect ==
    /\ []( pc = "accept"
           => ( out = << >> /\ buf = "" /\ handler = 0
                /\ transaction = SmtpTransaction_new ) )
    /\ [][ ( pc = "accept" /\ pc' # "accept" )
           => ( /\ wire' = wire /\ buf' = "" /\ transaction' = transaction
                /\ \/ pc' = "command" /\ out' = Reply220
                   \/ pc' = "closed" /\ out' = << >> ) ]_vars

\* handle_connection returned Err: the session has ended although the
\* client is there, with nothing written and no line ever read
C16_Refused ==
    /\ pc = "closed"
    /\ peer = "open"
    /\ out = << >>
    /\ cap = MaxLineSize
    /\ buf = ""
    /\ transaction = SmtpTransaction_new

Reply252Vrfy == << "252 Cannot VRFY user" >>

\* the handlers of VRFY, EXPN, HELP and NOOP
QueryHandlers ==
    { HandlerOf("VRFY "), HandlerOf("EXPN "), HandlerOf("HELP"), HandlerOf("NOOP") }

\* C17: the handlers of VRFY, EXPN, HELP and NOOP are allowed in all five
\* states; a line given to one of them is never answered 503, leaves the
\* transaction (state, domain, from, to, data) as it was, and the session
\* goes on; a line given to the VRFY handler is answered 252 Cannot VRFY
\* user whatever the state.
C17_Queries ==
    /\ [](\A h \in QueryHandlers :
            /\ get_handlers[h].allowed_states = SmtpTransactionState
            /\ transaction.state \in get_handlers[h].allowed_states)
    /\ [][ ( CommandStep /\ IncomingHandler \in QueryHandlers )
           => ( /\ transaction' = transaction
                /\ pc' = "command"
                /\ Len(out') = 1
                /\ out' # Reply503
                /\ IncomingHandler = HandlerOf("VRFY ") => out' = Reply252Vrfy ) ]_vars

\* VRFY answered 252 in state Rcpt, the envelope as it was
C17_Witness ==
    /\ handler = HandlerOf("VRFY ")
    /\ out = Reply252Vrfy
    /\ pc = "command"
    /\ transaction.state = "Rcpt"
    /\ Len(transaction.to) = 1
    /\ transaction.from # << >>

Reply500Unrecognized == << "500 Command unrecognized" >>

\* no command_start of the table is, compared without case, the beginning
\* of the line l
MatchesNone(l) ==
    \A h \in 1..Len(get_handlers) :
        \/ Len(l) < Len(get_handlers[h].command_start)
        \/ into_ascii_upper(SubSeq(l, 1, Len(get_handlers[h].command_start)))
             # get_handlers[h].command_start

\* C18: a command line that begins with none of the table's command_start
\* is answered 500 Command unrecognized whatever the state, the transaction
\* is left as it was and the session goes on.
C18_Unrecognized ==
    [][ ( CommandStep /\ MatchesNone(Incoming.line) )
        => ( /\ out' = Reply500Unrecognized
             /\ transaction' = transaction
             /\ pc' = "command" ) ]_vars

\* a line with no handler answered 500 in state Rcpt, the envelope kept
C18_Witness ==
    /\ handler = 0
    /\ err = IoOk
    /\ out = Reply500Unrecognized
    /\ pc = "command"
    /\ transaction.state = "Rcpt"
    /\ Len(transaction.to) = 1

\* every casing of the letters of s
RECURSIVE casings(_)
casings(s) ==
    IF s = "" THEN { "" }
    ELSE { c \o r : c \in { to_ascii_upper(SubSeq(s, 1, 1)), to_ascii_lower(SubSeq(s, 1, 1)) },
                    r \in casings(SubSeq(s, 2, Len(s))) }

\* the command_start of entry h is, compared without case, the beginning of l
Begins(l, h) ==
    /\ Len(l) >= Len(get_handlers[h].command_start)
    /\ into_ascii_upper(SubSeq(l, 1, Len(get_handlers[h].command_start)))
         = get_handlers[h].command_start

\* the first entry of the table that l begins with, 0 when there is none
FirstMatch(l) ==
    IF \A h \in 1..Len(get_handlers) : ~Begins(l, h) THEN 0
    ELSE CHOOSE h \in 1..Len(get_handlers) :
           Begins(l, h) /\ \A j \in 1..(h - 1) : ~Begins(l, j)

\* the verbs whose command_start ends in a separator, without it
BareVerbs == { "HELO", "EHLO", "VRFY", "EXPN", "MAIL FROM", "RCPT TO" }

\* the handler that h names, called on what follows its command_start in l,
\* gives the step's transaction and reply for one of the embedder's answers
CalledOnRest(l, h) ==
    \E ok \in BOOLEAN :
        \E e \in { callback(get_handlers[h].callback, transaction,
                            SubSeq(l, Len(get_handlers[h].command_start) + 1, Len(l)), ok) } :
            transaction' = e.transaction /\ out' = e.written

\* the lines l and m get the same handler and, from this state, the same
\* effect
SameDispatch(l, m) ==
    /\ get_handler_for_line(get_handlers, l) = get_handler_for_line(get_handlers, m)
    /\ dispatch(transaction, l, get_handler_for_line(get_handlers, l), TRUE)
         = dispatch(transaction, m, get_handler_for_line(get_handlers, m), TRUE)

\* C19: the handler chosen for a command line is the first entry of the
\* table, in declaration order, whose command_start equals the upper-cased
\* first bytes of the line; when the state allows it that handler is called
\* on the rest of the line as it was sent; when the line is a HELO, every
\* casing of its verb is dispatched as the line is ('helo x' as 'HELO x');
\* and a verb whose command_start ends in a separator, sent without it, has
\* no handler and is answered 500.
C19_Dispatcher ==
    [][ CommandStep
        => ( /\ handler' = FirstMatch(Incoming.line)
             /\ ( handler' # 0 /\ transaction.state \in get_handlers[handler'].allowed_states )
                => CalledOnRest(Incoming.line, handler')
             /\ handler' = HandlerOf("HELO ")
                => \A v \in casings("helo") :
                     SameDispatch(v \o SubSeq(Incoming.line, 5, Len(Incoming.line)),
                                  Incoming.line)
             /\ into_ascii_upper(Incoming.line) \in BareVerbs
                => ( handler' = 0 /\ out' = Reply500Unrecognized ) ) ]_vars

\* 'rcpt to:<c@d>' is pending in state Mail: the dispatcher gives it to the
\* RCPT TO: handler, which records the mailbox of the rest of the line
C19_Witness ==
    /\ pc = "command"
    /\ transaction.state = "Mail"
    /\ wire = "rcpt to:<c@d>" \o CRLF
    /\ IncomingHandler = HandlerOf("RCPT TO:")
    /\ dispatch(transaction, Incoming.line, IncomingHandler, TRUE).written = Reply250
    /\ Len(dispatch(transaction, Incoming.line, IncomingHandler, TRUE).transaction.to) = 1

Reply550Domain == << "550 Domain not taken" >>

\* what follows the five bytes of HELO or EHLO and the space in the line
\* the server is about to take
HeloArg == SubSeq(Incoming.line, 6, Len(Incoming.line))

\* C20: in state Init the domain is empty, and a line given to the HELO or
\* EHLO handler there is answered 501 Domain name not provided when nothing
\* follows the verb and 501 Domain name is invalid when what follows is not
\* a domain up to its end, the transaction left as it was; when it is a
\* domain, either the embedder accepts it, the reply is 250 OK, the domain
\* is what followed the verb and the state is Helo, or the embedder rejects
\* it, the reply is a 550 and the transaction is left as it was.
C20_Helo ==
    /\ [](transaction.state = "Init" => transaction.domain = "")
    /\ [][ ( /\ CommandStep
             /\ IncomingHandler \in { HandlerOf("HELO "), HandlerOf("EHLO ") }
             /\ transaction.state = "Init" )
           => IF HeloArg = ""
              THEN out' = << "501 Domain name not provided" >> /\ transaction' = transaction
              ELSE IF get_domain_len(HeloArg) # Len(HeloArg)
              THEN out' = << "501 Domain name is invalid" >> /\ transaction' = transaction
              ELSE \/ /\ out' = Reply250
                      /\ transaction' = [transaction EXCEPT !.domain = HeloArg,
                                                             !.state = "Helo"]
                      /\ pc' = "command"
                   \/ /\ out' = Reply550Domain
                      /\ transaction' = transaction ]_vars

\* the embedder has rejected the domain of an EHLO: 550, state Init, no domain
C20_Rejected ==
    /\ handler = HandlerOf("EHLO ")
    /\ out = Reply550Domain
    /\ transaction = SmtpTransaction_new

ParseErrors ==
    { "LocalPartTooLong", "LocalPartUnrecognized", "ForeignPartUnrecognized",
      "DomainTooLong", "TooLong", "AtNotFound" }

\* what follows MAIL FROM: or RCPT TO: in the line the server is about to take
AddressArg ==
    SubSeq(Incoming.line, Len(get_handlers[IncomingHandler].command_start) + 1,
           Len(Incoming.line))

\* a is of the form <...>
Bracketed(a) == Len(a) >= 2 /\ SubSeq(a, 1, 1) = "<" /\ SubSeq(a, Len(a), Len(a)) = ">"

\* the step gives an address to Mailbox::parse: a MAIL FROM: in state Helo
\* with <...> other than <>, or a RCPT TO: in state Mail or Rcpt, below the
\* recipient limit, with <...>
AddressStep ==
    /\ CommandStep
    /\ IncomingHandler \in { HandlerOf("MAIL FROM:"), HandlerOf("RCPT TO:") }
    /\ transaction.state \in get_handlers[IncomingHandler].allowed_states
    /\ Bracketed(AddressArg)
    /\ IF IncomingHandler = HandlerOf("MAIL FROM:") THEN AddressArg # "<>"
       ELSE Len(transaction.to) < MaxRecipients

\* Mailbox::parse of what is between the < and the >
ParsedAddress == MailboxParse(SubSeq(AddressArg, 2, Len(AddressArg) - 1))

\* C21: when the address of a MAIL FROM: or RCPT TO: fails Mailbox::parse,
\* the one reply is 553 Email address invalid: followed by the name of the
\* parse error, one of the six; the embedder is not called, the transaction
\* is left as it was and the session goes on; MAIL FROM:<bad> in state Helo
\* is answered 553 Email address invalid: AtNotFound.
C21_ParseError ==
    [][ AddressStep
        => ( /\ ParsedAddress.err # ""
                => ( /\ ParsedAddress.err \in ParseErrors
                     /\ out' = << "553 Email address invalid: " \o ParsedAddress.err >>
                     /\ calls' = << >>
                     /\ transaction' = transaction
                     /\ pc' = "command" )
             /\ Incoming.line = "MAIL FROM:<bad>"
                => out' = << "553 Email address invalid: AtNotFound" >> ) ]_vars

\* RCPT TO:<a@> answered 553 in state Rcpt with the one recipient kept
C21_Witness ==
    /\ handler = HandlerOf("RCPT TO:")
    /\ out = << "553 Email address invalid: ForeignPartUnrecognized" >>
    /\ pc = "command"
    /\ transaction.state = "Rcpt"
    /\ Len(transaction.to) = 1

\* a single reply line whose code is a 4xx or a 5xx
ErrorReply(written) ==
    /\ Len(written) = 1
    /\ Len(written[1]) >= 3
    /\ SubSeq(written[1], 1, 1) \in { "4", "5" }

\* C22: MAIL FROM:<> in state Helo is the null reverse-path: the embedder's
\* handle_sender_address is called with None, and when it accepts the reply
\* is 250 OK, from is None and the state is Mail, the rest of the
\* transaction as it was; RCPT TO:<> in state Mail or Rcpt is answered with
\* an error reply and leaves the recipients and the state as they were.
C22_NullPath ==
    [][ CommandStep
        => ( /\ ( /\ IncomingHandler = HandlerOf("MAIL FROM:")
                  /\ transaction.state = "Helo"
                  /\ AddressArg = "<>" )
                => ( /\ calls' = << "handle_sender_address(None)" >>
                     /\ \/ /\ out' = Reply250
                           /\ transaction' = [transaction EXCEPT !.from = << >>,
                                                                 !.state = "Mail"]
                           /\ pc' = "command"
                        \/ /\ ErrorReply(out')
                           /\ transaction' = transaction )
             /\ ( /\ IncomingHandler = HandlerOf("RCPT TO:")
                  /\ transaction.state \in { "Mail", "Rcpt" }
                  /\ AddressArg = "<>" )
                => ( /\ ErrorReply(out')
                     /\ transaction' = transaction
                     /\ pc' = "command" ) ) ]_vars

\* RCPT TO:<> refused in a transaction whose sender is the null reverse-path
C22_Witness ==
    /\ handler = HandlerOf("RCPT TO:")
    /\ out = << "553 Email address invalid: LocalPartUnrecognized" >>
    /\ transaction.state = "Mail"
    /\ transaction.from = << >>
    /\ transaction.to = << >>

\* the step is one in which the embedder was asked about a sender or a
\* recipient and refused it
Rejected ==
    /\ calls' \in { << "handle_sender_address(None)" >>,
                    << "handle_sender_address(Some)" >>,
                    << "handle_receiver_address" >> }
    /\ out' # Reply250

\* C23: when the embedder refuses a sender, a mailbox or the null
\* reverse-path, or a recipient, the one reply is a 550, the transaction is
\* left as it was (from, to and state) and the session goes on reading
\* commands.
C23_Rejection ==
    [][ CommandStep /\ Rejected
        => ( /\ Len(out') = 1
             /\ IsPrefix("550 ", out'[1])
             /\ transaction' = transaction
             /\ pc' = "command" ) ]_vars

\* the null reverse-path has been refused and the session is over although
\* the client is still there
C23_SessionEnded ==
    /\ handler = HandlerOf("MAIL FROM:")
    /\ calls = << "handle_sender_address(None)" >>
    /\ out = << "550 Mailbox not available" >>
    /\ pc = "closed"
    /\ peer = "open"

\* C23, weaker: the same for a refused mailbox or recipient; a refused null
\* reverse-path gets its 550 and leaves the transaction as it was.
C23_RejectionOfMailbox ==
    [][ CommandStep /\ Rejected
        => ( /\ Len(out') = 1
             /\ IsPrefix("550 ", out'[1])
             /\ transaction' = transaction
             /\ calls' # << "handle_sender_address(None)" >> => pc' = "command" ) ]_vars

Reply354 == << "354 Start mail input; end with <CRLF>.<CRLF>" >>

\* C24: for an accepted DATA the embedder is called in order: the start of
\* the body with the step that writes the 354, one part with each body
\* line taken, and with the line that ends the body the end of the body and
\* then the transaction; the reply is then 250 OK with the transaction
\* reset, or 554 Transaction failed with the transaction kept.
C24_Callbacks ==
    [][ /\ ( CommandStep /\ IncomingHandler = HandlerOf("DATA") /\ out' = Reply354 )
           => calls' = << "handle_body_start" >>
        /\ ( DataStep /\ pc' = "data" )
           => calls' = << "handle_body_part" >>
        /\ ( DataStep /\ pc' # "data" /\ err' = IoOk )
           => ( /\ calls' = << "handle_body_end", "handle_transaction" >>
                /\ \/ out' = Reply250 /\ transaction' = reset(transaction)
                   \/ out' = << "554 Transaction failed" >>
                      /\ transaction'.to = transaction.to ) ]_vars

\* a body has been taken to its end and answered 250 OK, the transaction
\* reset, and the embedder has not been called
C24_NoCallbacks ==
    /\ handler = HandlerOf("DATA")
    /\ pc = "command"
    /\ out = Reply250
    /\ calls = << >>
    /\ transaction.state = "Helo"
    /\ transaction.to = << >>

\* C24, what does hold: the line that ends a body within the limit is
\* always answered 250 OK with the transaction reset, and no step of a
\* DATA command calls the embedder.
C24_AlwaysAccepted ==
    [][ /\ ( CommandStep /\ IncomingHandler = HandlerOf("DATA") ) => calls' = << >>
        /\ DataStep => calls' = << >>
        /\ ( DataStep /\ pc' # "data" /\ err' = IoOk )
           => ( out' = Reply250 /\ transaction' = reset(transaction) ) ]_vars

\* for each script, what a session alone with its client has written when
\* it has taken the first n lines
ScriptReplies ==
    [ sc \in TaskScripts |-> [ n \in 0..Len(sc) |-> SerialReplies(SubSeq(sc, 1, n)) ] ]

\* the replies a task has written are those of a session of its own on the
\* lines it has taken, or none when it failed before the greeting
OwnReplies(k) ==
    \/ k.pc = "accept"
    \/ k.replies = ScriptReplies[k.script][k.taken]
    \/ k.pc = "closed" /\ k.taken = 0 /\ k.replies = << >>

\* C25: with several connections served at once, in any interleaving, a
\* step of one task, its failure included, changes no other task's
\* transaction, replies or event handler; every task's replies are those
\* of a session of its own; the server's own event handler is never
\* called; and the acceptor keeps running: it can accept a further
\* connection whatever the tasks have done.
C25_Isolation ==
    /\ [] ( mode = "server"
            => ( /\ server.running
                 /\ server.event_handler = 0
                 /\ Len(server.tasks) < MaxConns => ENABLED RunAccept
                 /\ \A i \in DOMAIN server.tasks : OwnReplies(server.tasks[i]) ) )
    /\ [][ mode = "server"
           => ( /\ DOMAIN server.tasks \subseteq DOMAIN server'.tasks
                /\ \A i, j \in DOMAIN server.tasks :
                      ( i # j /\ server'.tasks[i] # server.tasks[i] )
                          => server'.tasks[j] = server.tasks[j]
                /\ Len(server'.tasks) > Len(server.tasks)
                      => \A i \in DOMAIN server.tasks :
                            server'.tasks[i] = server.tasks[i] ) ]_vars

\* one task has failed in handle_command_rcpt, and a connection accepted
\* after it has its mail transaction under way
C25_Witness ==
    /\ mode = "server"
    /\ Len(server.tasks) = 2
    /\ server.tasks[1].ret = "Panic"
    /\ server.tasks[1].taken = 3
    /\ server.tasks[2].transaction.state = "Rcpt"
    /\ server.tasks[2].replies = << "220 " \o ServerDomain, "250 OK", "250 OK", "250 OK" >>
    /\ server.running

\* Mailbox::parse has been applied to the input in script
ParsedAny == mode = "parse" /\ Len(results) >= 1

\* the same, for an input that begins with a source route or with the
\* local part
Parsed == ParsedAny /\ script[1] \in Routes

\* RFC 5321 Dot-string: atoms of atext joined by single dots
IsDotString(l) ==
    /\ Len(l) >= 1
    /\ \A i \in 1..Len(l) :
          \/ is_atext(SubSeq(l, i, i))
          \/ /\ SubSeq(l, i, i) = "."
             /\ 1 < i /\ i < Len(l)
             /\ SubSeq(l, i + 1, i + 1) # "."

\* RFC 5321 Domain: sub-domains joined by dots, each of letters, digits and
\* inner hyphens
IsDomain(d) ==
    /\ Len(d) >= 1
    /\ is_alnum(SubSeq(d, 1, 1))
    /\ is_alnum(SubSeq(d, Len(d), Len(d)))
    /\ \A i \in 1..Len(d) :
          \/ is_alnum(SubSeq(d, i, i))
          \/ SubSeq(d, i, i) = "-"
          \/ /\ SubSeq(d, i, i) = "."
             /\ is_alnum(SubSeq(d, i - 1, i - 1))
             /\ is_alnum(SubSeq(d, i + 1, i + 1))

\* the input is L@D for the local part L and the foreign part D of script
PlainAddress == script[1] = "" /\ script[3] = "@" /\ script[5] = ""

\* C26: for every valid dot-string L of at most 64 octets, not a casing of
\* postmaster, and every valid domain D of at most 255 octets, with L@D of
\* at most 254 octets, Mailbox::parse(L@D) is Ok of the mailbox whose local
\* part has human_string = smtp_string = L and whose foreign part is
\* Domain(D).
C26_DotStringAtDomain ==
    ( /\ Parsed
      /\ PlainAddress
      /\ IsDotString(script[2])
      /\ Len(script[2]) <= MAX_MAILBOX_LOCAL_PART_LEN
      /\ into_ascii_lower(script[2]) # "postmaster"
      /\ IsDomain(script[4])
      /\ Len(script[4]) <= MAX_DOMAIN_LEN
      /\ Len(script[2]) + 1 + Len(script[4]) <= MAX_MAILBOX_LEN )
    => results[1] = ParseOk([ local_part |-> [ human_string |-> script[2],
                                              smtp_string |-> script[2] ],
                              foreign_part |-> Domain(script[4]) ])

\* a 64-octet dot-string at a 189-octet domain, 254 octets in all, parsed
C26_Witness ==
    /\ Parsed
    /\ PlainAddress
    /\ IsDotString(script[2])
    /\ IsDomain(script[4])
    /\ Len(script[2]) = MAX_MAILBOX_LOCAL_PART_LEN
    /\ Len(input_of(script)) = MAX_MAILBOX_LEN
    /\ results[1].err = ""

\* RFC 5321 QcontentSMTP: qtextSMTP and quoted-pairSMTP
RECURSIVE IsQContent(_)
IsQContent(q) ==
    \/ q = ""
    \/ /\ qtext_code(Ord(SubSeq(q, 1, 1)))
       /\ IsQContent(SubSeq(q, 2, Len(q)))
    \/ /\ Len(q) >= 2
       /\ SubSeq(q, 1, 1) = "\\"
       /\ Ord(SubSeq(q, 2, 2)) >= 32 /\ Ord(SubSeq(q, 2, 2)) <= 126
       /\ IsQContent(SubSeq(q, 3, Len(q)))

\* RFC 5321 Quoted-string
IsQuotedString(l) ==
    /\ Len(l) >= 2
    /\ SubSeq(l, 1, 1) = "\"" /\ SubSeq(l, Len(l), Len(l)) = "\""
    /\ IsQContent(SubSeq(l, 2, Len(l) - 1))

\* RFC 5321 Local-part, whatever its length
IsLocalPart(l) == IsDotString(l) \/ IsQuotedString(l)

\* the local part of script is a local part within the limit
ValidLocal == IsLocalPart(script[2]) /\ Len(script[2]) <= MAX_MAILBOX_LOCAL_PART_LEN

\* the foreign part of script is a domain within the limit or an address
\* literal
ValidForeign ==
    \/ IsDomain(script[4]) /\ Len(script[4]) <= MAX_DOMAIN_LEN
    \/ script[4] \in Literals

\* C27: the length limits of Mailbox::parse.  A local part of 64 octets
\* parses and one of more fails with LocalPartTooLong, whatever follows; a
\* domain of more than 255 octets after a valid local part fails with
\* DomainTooLong, whatever follows, and nothing else is reported as
\* DomainTooLong; an input of a valid local part, '@' and a valid foreign
\* part parses when it has at most 254 octets and fails with TooLong when it
\* has more; characters left after the foreign part are reported before the
\* total length.
C27_Lengths ==
    Parsed =>
        /\ ( IsLocalPart(script[2]) /\ Len(script[2]) > MAX_MAILBOX_LOCAL_PART_LEN )
              => results[1].err = "LocalPartTooLong"
        /\ ( ValidLocal /\ script[3] = "@" /\ IsDomain(script[4])
             /\ Len(script[4]) > MAX_DOMAIN_LEN )
              => results[1].err = "DomainTooLong"
        /\ results[1].err = "DomainTooLong"
              => ( IsDomain(script[4]) /\ Len(script[4]) > MAX_DOMAIN_LEN )
        /\ ( ValidLocal /\ script[3] = "@" /\ ValidForeign /\ script[5] = "" )
              => results[1].err = ( IF Len(input_of(script)) <= MAX_MAILBOX_LEN
                                    THEN "" ELSE "TooLong" )
        /\ ( ValidLocal /\ script[3] = "@" /\ ValidForeign /\ script[5] # "" )
              => results[1].err = "ForeignPartUnrecognized"

\* rust at a 250-octet domain, 255 octets in all, refused as too long
C27_Witness ==
    /\ Parsed
    /\ script[1] = "" /\ script[2] = "rust"
    /\ Len(input_of(script)) = MAX_MAILBOX_LEN + 1
    /\ results[1].err = "TooLong"

\* the local parts among the inputs whose unescaped form is a casing of
\* postmaster
PostmasterLocals ==
    { "PosTMAster", "postmaster", "POSTMASTER", "\"PostMaster\"", "\"post\\master\"" }

\* the local part of script as Mailbox::parse makes it from the input
AsWritten ==
    IF IsDotString(script[2]) THEN from_dot_string(script[2])
    ELSE from_quoted_string(script[2])

\* C28: in every mailbox that Mailbox::parse returns, a local part whose
\* unescaped form is postmaster in any casing, written as a dot-string or
\* as a quoted-string, has become human_string = smtp_string = postmaster,
\* and any other local part is as the input gives it.
C28_Postmaster ==
    ( Parsed /\ results[1].err = "" ) =>
        /\ script[2] \in PostmasterLocals
              <=> into_ascii_lower(AsWritten.human_string) = "postmaster"
        /\ results[1].mailbox[1].local_part =
              IF script[2] \in PostmasterLocals
              THEN [ human_string |-> "postmaster", smtp_string |-> "postmaster" ]
              ELSE AsWritten

\* the quoted-string "post\master" at a domain, parsed to postmaster
C28_Witness ==
    /\ Parsed
    /\ script[2] = "\"post\\master\""
    /\ results[1].err = ""
    /\ results[1].mailbox[1].local_part.smtp_string = "postmaster"

\* the quoted-string "postmaster " is not postmaster and is kept
C28_Untouched ==
    /\ Parsed
    /\ script[2] = "\"postmaster \""
    /\ results[1].err = ""
    /\ results[1].mailbox[1].local_part.smtp_string = "\"postmaster \""

\* the mailbox returned for the input in script has been written in its
\* SMTP form and given to Mailbox::parse again
Reparsed == mode = "parse" /\ Len(results) = 2

\* C29: whenever Mailbox::parse returns a mailbox m, the SMTP form of m
\* (its smtp_string, '@', its foreign part) parses to Ok of a mailbox equal
\* to m, also when the local part was a quoted-string whose unescaped
\* content is empty or is a dot-string.
C29_RoundTrip == Reparsed => results[2] = results[1]

\* the address ""@b has parsed to a mailbox whose SMTP form is @b, which
\* Mailbox::parse refuses
C29_EmptyLocalPart ==
    /\ Reparsed
    /\ script = << "", "\"\"", "@", "b", "" >>
    /\ results[1].mailbox[1].local_part.smtp_string = ""
    /\ results[2] = ParseErr("LocalPartUnrecognized")

\* C29, what does hold: the same for every input whose local part is not
\* the empty quoted-string.
C29_RoundTripNonEmpty == ( Reparsed /\ script[2] # "\"\"" ) => results[2] = results[1]

\* no dot-string and no quoted-string begins x: x does not begin with an
\* atext character, and no prefix of x is a quoted-string
NoLocalPartAt(x) ==
    \/ x = ""
    \/ /\ ~is_atext(SubSeq(x, 1, 1))
       /\ \A n \in 2..Len(x) : ~IsQuotedString(SubSeq(x, 1, n))

\* no domain begins y
NoDomainAt(y) == y = "" \/ ~is_alnum(SubSeq(y, 1, 1))

\* C30: the errors of Mailbox::parse.  With nothing that is a dot-string or
\* a quoted-string where the local part should be, LocalPartUnrecognized;
\* after a valid local part, the end of the input gives AtNotFound and a
\* character other than '@' gives LocalPartUnrecognized; after the '@',
\* neither a domain nor an address literal gives ForeignPartUnrecognized,
\* and so does any character left after a valid foreign part; and every
\* input gives either Ok of a mailbox or exactly one of the six errors.
C30_Errors ==
    Parsed =>
        /\ NoLocalPartAt(script[2] \o script[3] \o script[4] \o script[5])
              => results[1].err = "LocalPartUnrecognized"
        /\ ( ValidLocal /\ script[3] = "" ) => results[1].err = "AtNotFound"
        /\ ( ValidLocal /\ script[3] \notin { "", "@" } )
              => results[1].err = "LocalPartUnrecognized"
        /\ ( ValidLocal /\ script[3] = "@" /\ script[4] \in BadForeigns
             /\ NoDomainAt(script[4] \o script[5]) )
              => results[1].err = "ForeignPartUnrecognized"
        /\ ( ValidLocal /\ script[3] = "@" /\ ValidForeign /\ script[5] # "" )
              => results[1].err = "ForeignPartUnrecognized"
        /\ \/ results[1].err = "" /\ Len(results[1].mailbox) = 1
           \/ results[1].err \in ParseErrors /\ results[1].mailbox = << >>

\* a quoted local part after a source route, followed by '>'
C30_Witness ==
    /\ Parsed
    /\ script = << "@r.s:", "\"a b\"", ">", "", "" >>
    /\ results[1] = ParseErr("LocalPartUnrecognized")

\* the input of script without its first piece
address_of(sc) == sc[2] \o sc[3] \o sc[4] \o sc[5]

\* C31: a source route before the address is consumed and discarded:
\* Mailbox::parse of the route followed by the address gives what
\* Mailbox::parse of the address alone gives; and a prefix that is not a
\* complete source route is not skipped: get_source_route_len is 0.
C31_RouteDiscarded ==
    ParsedAny =>
        /\ script[1] \in Routes => results[1] = MailboxParse(address_of(script))
        /\ script[1] \in BadRoutes => get_source_route_len(input_of(script)) = 0

\* an address of 254 octets that parses alone is refused as too long after
\* the source route @r.s:
C31_RouteCounted ==
    /\ ParsedAny
    /\ script[1] = "@r.s:"
    /\ Len(address_of(script)) = MAX_MAILBOX_LEN
    /\ MailboxParse(address_of(script)).err = ""
    /\ results[1] = ParseErr("TooLong")

\* the prefix @r,: is skipped as if it were a source route
C31_CommaColon ==
    /\ ParsedAny
    /\ script = << "@r,:", "a", "@", "b", "" >>
    /\ results[1].err = ""

\* C31, what does hold: a source route is discarded when the whole input is
\* within MAX_MAILBOX_LEN or the address alone fails; the prefixes without
\* a ':' or with a domain that is none are not skipped.
C31_RouteDiscardedWithin ==
    ParsedAny =>
        /\ ( /\ script[1] \in Routes
             /\ \/ Len(input_of(script)) <= MAX_MAILBOX_LEN
                \/ MailboxParse(address_of(script)).err # "" )
              => results[1] = MailboxParse(address_of(script))
        /\ script[1] \in BadRoutes \ { "@r,:", ":" }
              => /\ get_source_route_len(input_of(script)) = 0
                 /\ results[1] = ParseErr("LocalPartUnrecognized")

\* the content of a quoted-string with every quoted-pair replaced by the
\* byte it escapes
RECURSIVE Unescaped(_)
Unescaped(c) ==
    IF c = "" THEN ""
    ELSE IF SubSeq(c, 1, 1) = "\\"
    THEN SubSeq(c, 2, 2) \o Unescaped(SubSeq(c, 3, Len(c)))
    ELSE SubSeq(c, 1, 1) \o Unescaped(SubSeq(c, 2, Len(c)))

\* the content of a quoted-string with the backslash kept only before a
\* double quote or a backslash
RECURSIVE Requoted(_)
Requoted(c) ==
    IF c = "" THEN ""
    ELSE IF SubSeq(c, 1, 1) = "\\"
    THEN ( IF SubSeq(c, 2, 2) \in { "\"", "\\" } THEN SubSeq(c, 1, 2)
           ELSE SubSeq(c, 2, 2) ) \o Requoted(SubSeq(c, 3, Len(c)))
    ELSE SubSeq(c, 1, 1) \o Requoted(SubSeq(c, 2, Len(c)))

\* the human form and the SMTP form of the quoted-string q
HumanOf(q) == Unescaped(SubSeq(q, 2, Len(q) - 1))
SmtpOf(q) ==
    IF IsDotString(HumanOf(q)) THEN HumanOf(q)
    ELSE "\"" \o Requoted(SubSeq(q, 2, Len(q) - 1)) \o "\""

\* Mailbox::parse has returned a mailbox for an input whose local part is
\* a quoted-string other than a postmaster
QuotedParsed ==
    /\ Parsed
    /\ IsQuotedString(script[2])
    /\ script[2] \notin PostmasterLocals
    /\ results[1].err = ""

\* the forms of the local part of the mailbox returned are those of the
\* quoted-string of the input, and the SMTP form unescapes to the human form
FormsOf(lp) ==
    /\ lp.human_string = HumanOf(script[2])
    /\ lp.smtp_string = SmtpOf(script[2])
    /\ IF IsQuotedString(lp.smtp_string)
       THEN unescape_quoted_string(lp.smtp_string) = lp.human_string
       ELSE lp.smtp_string = lp.human_string

\* C32: for every valid quoted-string, the human form is the content with
\* every quoted-pair replaced by the byte it escapes; the SMTP form is the
\* human form when that is a valid dot-string, and otherwise the
\* quoted-string with the backslash kept only before a double quote or a
\* backslash; and unescaping the SMTP form gives the human form.
C32_QuotedForms == QuotedParsed => FormsOf(results[1].mailbox[1].local_part)

\* the empty quoted-string has the empty string, which is no dot-string,
\* as its SMTP form
C32_EmptySmtpForm ==
    /\ QuotedParsed
    /\ script = << "", "\"\"", "@", "t.com", "" >>
    /\ results[1].mailbox[1].local_part = [ human_string |-> "", smtp_string |-> "" ]

\* C32, what does hold: the same for every quoted-string that is not empty.
C32_QuotedFormsNonEmpty ==
    ( QuotedParsed /\ script[2] # "\"\"" ) => FormsOf(results[1].mailbox[1].local_part)

\* the quoted-string "r\\\b\;.c\"o" has kept two of its four backslashes
C32_Requoted ==
    /\ QuotedParsed
    /\ results[1].mailbox[1].local_part =
          [ human_string |-> "r\\b;.c\"o", smtp_string |-> "\"r\\\\b;.c\\\"o\"" ]

\* the bytes received or still to come that read_line has not returned
Pending == buf \o wire

\* the read_line call of this step has returned a line
LineReturned ==
    /\ mode = "stream"
    /\ Len(results') = Len(results) + 1
    /\ results'[Len(results')].err = IoOk

\* of the pending bytes, l is what precedes the first adjacent <CR><LF>,
\* and rest is what follows that pair
SplitAtFirstCrLf(l, rest) ==
    /\ Pending = l \o CRLF \o rest
    /\ \A p \in 1..Len(l) : SubSeq(Pending, p, p + 1) # CRLF

\* C33: read_line splits the input only at an adjacent <CR><LF>: the line
\* returned is the bytes before the first such pair, exactly the pair is
\* removed, and a call that fails removes nothing; a <CR> with a <LF>
\* further on is part of the line.
C33_AdjacentCrLf ==
    [][ mode = "stream"
        => IF LineReturned
           THEN SplitAtFirstCrLf(results'[Len(results')].line, Pending')
           ELSE Pending' = Pending ]_vars

\* of a<CR>b<LF>c<CRLF>d<CRLF> the first line returned is a<CR>, and b<LF> is
\* gone
C33_BareCr ==
    /\ mode = "stream"
    /\ script = << "a\rb\nc", "d" >>
    /\ results = << [err |-> IoOk, line |-> "a\r"] >>
    /\ Pending = "c\r\nd\r\n"

\* C33, what does hold: the same as long as no <CR> other than that of a
\* <CR><LF> pair is pending.
C33_AdjacentCrLfOnly ==
    [][ ( mode = "stream"
          /\ \A p \in 1..Len(Pending) :
                SubSeq(Pending, p, p) = CR
                   => ( p < Len(Pending) /\ SubSeq(Pending, p + 1, p + 1) = LF ) )
        => IF LineReturned
           THEN SplitAtFirstCrLf(results'[Len(results')].line, Pending')
           ELSE Pending' = Pending ]_vars

C35_Envelope ==
    mode = "free" =>
        /\ transaction.state = "Init"
              => ( transaction.domain = "" /\ transaction.from = << >>
                   /\ transaction.to = << >> )
        /\ transaction.state = "Helo"
              => ( transaction.domain # "" /\ transaction.from = << >>
                   /\ transaction.to = << >> )
        /\ transaction.state = "Mail" => transaction.to = << >>
        /\ transaction.state = "Rcpt" <=> transaction.to # << >>

\* after a 552 the session is about to read a command in state Rcpt with
\* its sender and its recipients kept
C35_Witness ==
    /\ handler = HandlerOf("DATA")
    /\ pc = "command"
    /\ out = Reply552
    /\ transaction.state = "Rcpt"
    /\ Len(transaction.to) = MaxRecipients
    /\ transaction.from # << >>

\* C36: identification happens at most once per connection: once the state
\* has left Init no step brings it back to Init, every later line that
\* matches the HELO or the EHLO handler is answered 503 Bad sequence of
\* commands, and no step changes or clears transaction.domain: not RSET,
\* not the reset after DATA, not any other command.
C36_IdentifiedOnce ==
    /\ [][ transaction.state # "Init" => transaction'.state # "Init" ]_vars
    /\ [][ transaction.state # "Init"
           => transaction'.domain = transaction.domain ]_vars
    /\ [][ ( /\ CommandStep
             /\ IncomingHandler \in { HandlerOf("HELO "), HandlerOf("EHLO ") }
             /\ transaction.state # "Init" )
           => ( out' = Reply503 /\ transaction' = transaction ) ]_vars
    /\ [] ( ( mode = "free" /\ transaction.state # "Init" )
            => transaction.domain # "" )

\* an EHLO answered 503 in the middle of a transaction, the domain of the
\* first identification and the recipients kept
C36_Witness ==
    /\ handler = HandlerOf("EHLO ")
    /\ out = Reply503
    /\ pc = "command"
    /\ transaction.state = "Rcpt"
    /\ transaction.domain # ""
    /\ Len(transaction.to) >= 1

\* C37: during DATA the reply 552 Too much mail data is written only when the
\* accumulated body has exceeded max_message_size: read_data returned
\* 'message too long'.  A body line longer than max_line_size, or the end of
\* input inside the body, is not answered 552.
C37_552OnlyForSize ==
    [][ ( pc = "data" /\ out' = Reply552 ) => err' = TooMuchData ]_vars

\* a 552 written for a body line that read_line refused as too long, the
\* client still connected
C37_552ForLongLine ==
    /\ handler = HandlerOf("DATA")
    /\ pc = "command"
    /\ out = Reply552
    /\ err = TooLong
    /\ peer = "open"
    /\ Len(buf) = cap
    /\ position_crlf(buf) < 0
    /\ transaction.state = "Rcpt"

\* a 552 written for the end of input inside the body
C37_552AtEndOfInput ==
    /\ handler = HandlerOf("DATA")
    /\ pc = "command"
    /\ out = Reply552
    /\ err = TooLong
    /\ peer = "closed"
    /\ wire = ""
    /\ Len(buf) < MaxLineSize

\* what does hold: the 552 answers every InvalidInput of read_data, and
\* nothing else
C37_552ForInvalidInput ==
    [][ pc = "data"
        => ( out' = Reply552 <=> ( err' # IoOk /\ err'[1].kind = "InvalidInput" ) ) ]_vars

\* the scripted client has been answered 552: what is left of its script is
\* the rest of the body it was sending, up to and including the '.' line
After552 ==
    /\ mode = "script"
    /\ \E i \in 1..Len(replies) : replies[i] = Reply552[1]
    /\ sent <= Len(script)

\* C38: after a DATA phase that failed with 552, the lines of the body that
\* the client goes on sending, up to and including the terminating '.' line,
\* are not dispatched as commands: the step that takes one of them writes no
\* reply and leaves the transaction as it was.
C38_BodyNotDispatched ==
    [][ ( After552 /\ Len(wire') < Len(wire) )
        => ( out' = << >> /\ transaction' = transaction ) ]_vars

\* the body line 'RSET' that followed the 552 has run the RSET handler: it
\* was answered 250 and the envelope is gone
C38_BodyLineRun ==
    /\ After552
    /\ script = Envelope \o << from_char(MaxMessageSize + 1, "x"), "RSET", "." >>
    /\ sent = Len(script) - 1
    /\ handler = HandlerOf("RSET")
    /\ out = Reply250
    /\ replies[Len(replies) - 1] = Reply552[1]
    /\ transaction.state = "Helo"
    /\ transaction.to = << >>

\* the terminating '.' line of the failed body has been answered as an
\* unknown command
C38_DotAnswered ==
    /\ After552
    /\ sent = Len(script)
    /\ wire = ""
    /\ handler = 0
    /\ Len(out) = 1
    /\ IsPrefix("500 ", out[1])
    /\ replies[Len(replies)] = out[1]

Reply501Address ==
    << "501 Email address invalid, must start with < and end with >" >>

\* the step dispatches a line to a handler that the state allows
AllowedStep ==
    /\ CommandStep
    /\ IncomingHandler # 0
    /\ transaction.state \in get_handlers[IncomingHandler].allowed_states

\* the handler's step wrote a reply, and the session goes on unless the
\* handler is QUIT or the embedder refused what it was asked
AnsweredAndRunning ==
    /\ out' # << >>
    /\ pc' = "closed" => ( IncomingHandler = HandlerOf("QUIT") \/ calls' # << >> )

\* C39: every line that matches a handler's prefix in a state the handler
\* allows is answered with a reply and the session goes on, whatever the
\* argument: 'RCPT TO:' with an empty argument is answered 501 as
\* 'MAIL FROM:' with an empty argument is, and the session is not aborted.
C39_AlwaysAnswered ==
    [][ AllowedStep
        => ( /\ AnsweredAndRunning
             /\ ( \/ Incoming.line = "MAIL FROM:"
                  \/ ( Incoming.line = "RCPT TO:"
                       /\ Len(transaction.to) < MaxRecipients ) )
                => ( out' = Reply501Address /\ pc' = "command" ) ) ]_vars

\* the session has ended on 'RCPT TO:' with nothing written, the client
\* still connected
C39_RcptAborts ==
    /\ pc = "closed"
    /\ handler = HandlerOf("RCPT TO:")
    /\ out = << >>
    /\ err = IoOk
    /\ peer = "open"
    /\ transaction.state \in { "Mail", "Rcpt" }
    /\ Len(transaction.to) < MaxRecipients

\* what does hold: every other line is answered, 'MAIL FROM:' with 501
C39_AnsweredButEmptyRcpt ==
    [][ ( /\ AllowedStep
          /\ ~ ( Incoming.line = "RCPT TO:" /\ Len(transaction.to) < MaxRecipients ) )
        => ( /\ AnsweredAndRunning
             /\ Incoming.line = "MAIL FROM:"
                => ( out' = Reply501Address /\ pc' = "command" ) ) ]_vars

\* the client has closed, everything it sent has been read and the buffer
\* holds no complete line: the underlying read returns EndOfFile
EndOfInput ==
    /\ pc \in { "command", "data" }
    /\ peer = "closed"
    /\ wire = ""
    /\ position_crlf(buf) < 0

\* the lines w are the reply 500 Command line too long
CommandLineTooLong(w) == Len(w) = 1 /\ IsPrefix("500 Command line too long", w[1])

\* C40: when the peer closes the connection (the read returns EndOfFile and
\* no complete line is buffered) the session eventually ends: the end of
\* input is not answered 500 Command line too long, and the session does
\* not go on reading and replying forever.
C40_EndsAtEndOfInput ==
    /\ [][ ( EndOfInput /\ pc = "command" ) => ~CommandLineTooLong(out') ]_vars
    /\ EndOfInput ~> ( pc = "closed" )

\* the end of input is not answered 500 Command line too long
C40_NoReplyAtEndOfInput ==
    [][ ( EndOfInput /\ pc = "command" ) => ~CommandLineTooLong(out') ]_vars

\* the session ends after the end of input
C40_SessionEnds == EndOfInput ~> ( pc = "closed" )

\* the end of input has been answered 500 Command line too long and the
\* session is about to read again
C40_AnsweredEndOfInput ==
    /\ EndOfInput
    /\ pc = "command"
    /\ buf = ""
    /\ handler = 0
    /\ err = TooLong
    /\ CommandLineTooLong(out)

====
